---- MODULE Spec2Model ----
(***************************************************************************)
(* Model of the binary container builders of scripts/build_assets.py:      *)
(*   pack_models         -> srmodels.bin (model container)                *)
(*   pack_assets_simple  -> assets.bin   (asset bundle)                   *)
(* Byte strings are sequences of integers 0..255, text strings are         *)
(* sequences of code points.  SpecPackModels runs pack_models on every     *)
(* bounded model tree, SpecPackAssets runs pack_assets_simple twice on     *)
(* every bounded directory; the variables of the function that is not      *)
(* running keep their idle values.                                         *)
(***************************************************************************)
EXTENDS Integers, Sequences, FiniteSets, TLC

\* ------------------------------------------------------------------ bounds
\* at most MaxModels entries in the listing of the model root
MaxModels == 2
\* at most MaxFiles files in the whole model tree
MaxFiles == 3
\* at most MaxLongNames names of the model tree are longer than the name field
MaxLongNames == 1

\* at most MaxEntries entries in the directory handed to pack_assets_simple
MaxEntries == 3

\* names handed to the name encoders have at most MaxNameChars characters
MaxNameChars == 34

\* checksummed byte strings: at most MaxReps blocks of 129 bytes of 255, then
\* at most MaxTail bytes
MaxReps == 2
MaxTail == 1

\* a build is asked for at most MaxRequested models
MaxRequested == 2
MaxStored == 2
MaxChecks == 3

\* ------------------------------------------------------- program constants
\* width of a name field (struct_pack_string(key, 32))
NAME_LEN == 32

\* src/tools/ble_wifi.py: ProvisionCommand.CONNECT and the ProvisionStatus values
CONNECT_COMMAND == 1
CONNECTING == 1
CONNECTED == 2
FAILED_TIMEOUT == 16
FAILED_WRONG_PWD == 17
FAILED_NOT_FOUND == 18
FAILED_UNKNOWN == 31

\* ---------------------------------------------------------------- helpers
RECURSIVE SumLen(_)
\* total length of a sequence of byte strings
SumLen(ss) == IF ss = <<>> THEN 0 ELSE Len(Head(ss)) + SumLen(Tail(ss))

RECURSIVE Concat(_)
\* concatenation of a sequence of sequences
Concat(ss) == IF ss = <<>> THEN <<>> ELSE Head(ss) \o Concat(Tail(ss))

\* struct.pack('I', n): 4 bytes, native order of the build host (little-endian);
\* struct.error for a value outside 0..2^32-1
PackI(n) == << n % 256, (n \div 256) % 256, (n \div 65536) % 256, (n \div 16777216) % 256 >>

\* reading back a 4-byte little-endian integer at 0-based offset pos of a byte string
ReadU32(b, pos) == b[pos + 1] + 256 * b[pos + 2] + 65536 * b[pos + 3] + 16777216 * b[pos + 4]

\* b[pos : pos + n] for a 0-based offset pos
Slice(b, pos, n) == [k \in 1..n |-> b[pos + k]]

\* ------------------------------------------------------ struct_pack_string
\* struct_pack_string raises: the assert on the length, struct.error from
\* struct.pack('b', ord(char)) for a character above 127, and TypeError from
\* `None += bytes` when the string is empty and padding is appended.
struct_pack_string_raises(string, max_len) ==
    \/ Len(string) > max_len
    \/ \E k \in 1..Len(string) : string[k] > 127
    \/ Len(string) = 0 /\ max_len > 0

\* the bytes struct_pack_string returns when it does not raise
struct_pack_string(string, max_len) ==
    string \o [k \in 1..(max_len - Len(string)) |-> 0]

\* ------------------------------------------------------------ input trees
\* file payloads used in the model tree and in the bundle directory
Contents == { <<>>, <<1>>, <<2, 3>> }

\* name of the i-th listed entry of the model root: "mn<i>", or a name of
\* NAME_LEN + 1 characters "<i>xxx...x"
EntryName(i, long) ==
    IF long THEN [k \in 1..(NAME_LEN + 1) |-> IF k = 1 THEN 48 + i ELSE 120]
    ELSE << 109, 110, 48 + i >>

\* relative path of the j-th file found by the walk of a model: "f<j>" at the
\* top of the model, "d/f<j>" below it, or a path of NAME_LEN + 1 characters
RelPath(j, long) ==
    IF long THEN [k \in 1..(NAME_LEN + 1) |-> IF k = 1 THEN 48 + j ELSE 121]
    ELSE IF j % 2 = 0 THEN << 100, 47, 102, 48 + j >> ELSE << 102, 48 + j >>

RECURSIVE DataSeqs(_)
\* the sequences of exactly n payloads
DataSeqs(n) ==
    IF n = 0 THEN { <<>> }
    ELSE { Append(s, c) : s \in DataSeqs(n - 1), c \in Contents }

\* a root entry holding exactly k files: a directory, or (k = 0) a plain file
EntryShapes(k) ==
    { [isdir |-> TRUE, datas |-> d] : d \in DataSeqs(k) }
      \cup (IF k = 0 THEN { [isdir |-> FALSE, datas |-> <<>>] } ELSE {})

RECURSIVE Shapes(_, _)
\* listings of at most m root entries holding at most f files in all
Shapes(m, f) ==
    IF m = 0 THEN { <<>> }
    ELSE { <<>> } \cup
         UNION { { <<e>> \o t : e \in EntryShapes(k), t \in Shapes(m - 1, f - k) }
                 : k \in 0..f }

\* the names of a shape: <<i, 0>> is entry i, <<i, j>> is file j of entry i
Positions(shape) ==
    { <<i, 0>> : i \in 1..Len(shape) }
      \cup UNION { { <<i, j>> : j \in 1..Len(shape[i].datas) } : i \in 1..Len(shape) }

\* the directory tree of a shape, the names at the positions in L being long
TreeOf(shape, L) ==
    [i \in 1..Len(shape) |->
        [name  |-> EntryName(i, <<i, 0>> \in L),
         isdir |-> shape[i].isdir,
         files |-> [j \in 1..Len(shape[i].datas) |->
                      [rel_path |-> RelPath(j, <<i, j>> \in L),
                       data     |-> shape[i].datas[j]]]]]

\* ------------------------------------------------------------- variables
VARIABLES
    path_exists,   \* os.path.exists(model_path)
    tree,          \* os.listdir(model_path) in listing order, with os.walk of each entry
    pm_pc,         \* position in pack_models
    models,        \* the dict `models`, in insertion order
    file_num,
    model_num,
    header_len,
    out_bin,
    data_bin,      \* [none |-> TRUE] for None, else [none |-> FALSE, bytes |-> ...]
    srmodels,      \* the file model_path/out_file: [exists, bytes]
    pm_ret         \* "none" while running, then "True", "False", or the raising
                   \* place: "raise_struct_pack_string", "raise_header_len"

VARIABLES
    assets_dir,     \* the directory target_path: a set of [name, isfile, data]
    pa_pc,          \* position in pack_assets_simple
    listing,        \* what os.listdir(target_path) returned in the latest run
    order_changed,  \* TRUE when it returned another order than in the run before
    file_list,
    file_info_list,
    merged_data,
    mmap_table,
    assets_bin,     \* the file out_file: [exists, bytes]
    prev_bin,       \* the content of out_file left by the run before
    rerun,          \* TRUE in the second run on the unchanged directory
    pa_ret          \* "none" while running, then "True"

VARIABLES
    nc_codec,       \* the encoder applied: "struct_pack_string" or "asset_record"
    nc_info,        \* its input: [file_name, offset, file_size, width, height]
    nc_pc,          \* "start", then "done"
    nc_out,         \* the bytes it returned
    nc_raised,      \* TRUE when it raised instead of returning
    nc_warned       \* TRUE when it printed the truncation warning

VARIABLES
    cs_a,           \* a byte string
    cs_b,           \* another one
    cs_pc,          \* "start", then "done"
    cs_of_a,        \* compute_checksum(cs_a)
    cs_of_b,        \* compute_checksum(cs_b)
    cs_of_ab        \* compute_checksum(cs_a + cs_b)

VARIABLES
    model_names,          \* the model names the build is asked for
    cn_wake_word,         \* the Chinese wake word argument
    en_wake_word,         \* the English wake word argument
    threshold,            \* the threshold argument, in tenths
    output_before,        \* the destination file when build_assets was called
    output_file,          \* the file at output_path
    temp_build_dir,       \* TRUE when <dirname(output_path)>/temp_build exists
    ba_pc,                \* the step build_assets is at
    model_list,           \* (model_type, model_name, model_path) of the models found
    sr_models_build_dir,  \* the model directories copied to temp_build/srmodels
    ba_srmodels,          \* what process_sr_models returned
    languages,            \* what get_languages_from_models returned
    multinet_model_info,  \* the multinet_model object, or none
    index_json,           \* temp_build/assets/index.json
    image_file,           \* temp_build/output/assets.bin
    ba_built,             \* the bundle as pack_assets_simple wrote it
    ba_fault,             \* the call that raised, "none" when none did
    ba_error,             \* the error build_assets printed, "none" when none
    ba_ret,               \* the value of the return statement executed
    teardown_runs,        \* how often the finally block ran
    teardown_removed,     \* how often the finally block removed temp_build
    ba_trace              \* the steps of the build that have started, in order

VARIABLES
    tb_dest,          \* the destination path of each of two builds
    tb_ws,            \* the temp_build directories, by name
    tb_out,           \* whose bundle each destination file holds, 0 for none
    tb_pc,            \* the step each build is at
    tb_ret,           \* what each build returned
    tb_fresh,         \* TRUE once a build has made its workspace anew
    tb_interference   \* << p, q, what >>: p read, overwrote or removed files of q

VARIABLES
    ot_store,             \* the firmware directory: name, content and mtime of each file
    ot_uploads,           \* the firmware directory as the uploads left it
    ot_clock,             \* the time
    ot_request,           \* the body of the last request
    ot_store_at_request,  \* the firmware directory when the last request came
    ot_reply,             \* the last reply
    ot_previous,          \* the reply before it
    ot_checks             \* the number of requests handled

VARIABLES
    bl_caller,        \* "main", or "direct" for configure_wifi called on its own
    bl_pc,            \* the line the tool is at
    bl_client,        \* TRUE when configurator.client is not None
    bl_device,        \* TRUE when configurator.device is not None
    bl_is_connected,  \* client.is_connected
    bl_connect_ok,    \* TRUE when connect() returned True
    bl_ssid,          \* the SSID, stripped
    bl_password,      \* the password, stripped
    bl_notify,        \* TRUE while the notification handler is registered
    bl_status_event,  \* status_event is set
    bl_final_status,  \* final_status[0]: <<>> for None, else << status >>
    bl_final_when,    \* when final_status was last set, relative to the CONNECT write
    bl_writes,        \* the GATT writes done, in order
    bl_cw_ret,        \* what configure_wifi returned
    bl_cw_entry,      \* "ok" or "refused": the test at the head of configure_wifi
    bl_result,        \* what main reported: "success", "failed" or "timeout"
    bl_calls,         \* the calls of the finally block, in order
    bl_raised         \* TRUE when an exception leaves main

pmVars == << path_exists, tree, pm_pc, models, file_num, model_num, header_len,
             out_bin, data_bin, srmodels, pm_ret >>

paVars == << assets_dir, pa_pc, listing, order_changed, file_list, file_info_list,
             merged_data, mmap_table, assets_bin, prev_bin, rerun, pa_ret >>

ncVars == << nc_codec, nc_info, nc_pc, nc_out, nc_raised, nc_warned >>

csVars == << cs_a, cs_b, cs_pc, cs_of_a, cs_of_b, cs_of_ab >>

baVars == << model_names, cn_wake_word, en_wake_word, threshold, output_before, output_file,
             temp_build_dir, ba_pc, model_list, sr_models_build_dir, ba_srmodels, languages,
             multinet_model_info, index_json, image_file, ba_built, ba_fault, ba_error,
             ba_ret, teardown_runs, teardown_removed, ba_trace >>

tbVars == << tb_dest, tb_ws, tb_out, tb_pc, tb_ret, tb_fresh, tb_interference >>

blVars == << bl_caller, bl_pc, bl_client, bl_device, bl_is_connected, bl_connect_ok, bl_ssid,
             bl_password, bl_notify, bl_status_event, bl_final_status, bl_final_when,
             bl_writes, bl_cw_ret, bl_cw_entry, bl_result, bl_calls, bl_raised >>

otVars == << ot_store, ot_uploads, ot_clock, ot_request, ot_store_at_request, ot_reply,
             ot_previous, ot_checks >>

vars == << pmVars, paVars, ncVars, csVars, baVars, tbVars, blVars, otVars >>

\* what the steps of one function leave alone: the variables of the others
notPM == << paVars, ncVars, csVars, baVars, tbVars, blVars, otVars >>
notPA == << pmVars, ncVars, csVars, baVars, tbVars, blVars, otVars >>
notNC == << pmVars, paVars, csVars, baVars, tbVars, blVars, otVars >>
notCS == << pmVars, paVars, ncVars, baVars, tbVars, blVars, otVars >>
notBA == << pmVars, paVars, ncVars, csVars, tbVars, blVars, otVars >>
notOT == << pmVars, paVars, ncVars, csVars, baVars, tbVars, blVars >>
notBL == << pmVars, paVars, ncVars, csVars, baVars, tbVars, otVars >>
notTB == << pmVars, paVars, ncVars, csVars, baVars, blVars, otVars >>

None == [none |-> TRUE, bytes |-> <<>>]
NoFile == [exists |-> FALSE, bytes |-> <<>>]

\* ------------------------------------------------------------ pack_models
PMInit ==
    /\ path_exists \in BOOLEAN
    /\ \E shape \in Shapes(MaxModels, MaxFiles) :
         \E L \in { P \in SUBSET Positions(shape) : Cardinality(P) <= MaxLongNames } :
            tree = IF path_exists THEN TreeOf(shape, L) ELSE <<>>
    /\ pm_pc = "start"
    /\ models = <<>>
    /\ file_num = 0
    /\ model_num = 0
    /\ header_len = 0
    /\ out_bin = <<>>
    /\ data_bin = None
    /\ srmodels = NoFile
    /\ pm_ret = "none"

\* the scan without the os.path.isdir test
ScanModelsNoIsdir(t) == [i \in 1..Len(t) |-> [name |-> t[i].name, isdir |-> t[i].isdir,
                                              files |-> t[i].files]]

\* lines 112-123: one dict entry per directory of the listing, in listing order
ScanModels(t) == SelectSeq([i \in 1..Len(t) |-> [name |-> t[i].name, isdir |-> t[i].isdir,
                                                files |-> t[i].files]],
                           LAMBDA e : e.isdir)

RECURSIVE CountFiles(_)
\* lines 117-119: file_num += 1 for every file of every walk
CountFiles(ms) == IF ms = <<>> THEN 0 ELSE Len(Head(ms).files) + CountFiles(Tail(ms))

\* the header length with the file descriptors counted as model descriptors
HeaderLenNoOffsets(mnum, fnum) == 4 + mnum * (32 + 4) + fnum * (32 + 4)

\* line 131
HeaderLen(mnum, fnum) == 4 + mnum * (32 + 4) + fnum * (32 + 4 + 4)

\* lines 103-127: the existence test, the scan, the "no models" test
PMScan ==
    /\ pm_pc = "start"
    /\ IF ~path_exists
       THEN /\ pm_pc' = "done"
            /\ pm_ret' = "False"
            /\ UNCHANGED << models, file_num >>
       ELSE /\ models' = ScanModels(tree)
            /\ file_num' = CountFiles(ScanModels(tree))
            /\ IF ScanModels(tree) = <<>>
               THEN pm_pc' = "done" /\ pm_ret' = "False"
               ELSE pm_pc' = "scanned" /\ pm_ret' = pm_ret
    /\ UNCHANGED << path_exists, tree, model_num, header_len, out_bin, data_bin, srmodels >>
    /\ UNCHANGED notPM

\* the offset of a later file taken relative to the data region
FileOffsetRelative(hlen, d) == IF d.none THEN hlen ELSE Len(d.bytes)

\* line 148 / 144: the offset stored for a file when data_bin holds d
FileOffset(hlen, d) == IF d.none THEN hlen ELSE hlen + Len(d.bytes)

\* data_bin assigned where it should be extended
AppendDataOverwrite(d, payload) == [none |-> FALSE, bytes |-> payload]

\* lines 143-150: data_bin after appending a payload
AppendData(d, payload) ==
    IF d.none THEN [none |-> FALSE, bytes |-> payload]
    ELSE [none |-> FALSE, bytes |-> d.bytes \o payload]

RECURSIVE LayoutFiles(_, _, _)
\* lines 141-150 for the files fs of one model: st = [bin, data, raised]
LayoutFiles(fs, hlen, st) ==
    IF fs = <<>> \/ st.raised THEN st
    ELSE LET f == Head(fs) IN
         IF struct_pack_string_raises(f.rel_path, NAME_LEN)
         THEN [st EXCEPT !.raised = TRUE]
         ELSE LayoutFiles(Tail(fs), hlen,
                [bin    |-> st.bin \o struct_pack_string(f.rel_path, NAME_LEN)
                                   \o PackI(FileOffset(hlen, st.data))
                                   \o PackI(Len(f.data)),
                 data   |-> AppendData(st.data, f.data),
                 raised |-> FALSE])

RECURSIVE LayoutModels(_, _, _)
\* lines 137-152 for the models ms: st = [bin, data, raised], bin being out_bin
LayoutModels(ms, hlen, st) ==
    IF ms = <<>> \/ st.raised THEN st
    ELSE LET m == Head(ms) IN
         IF struct_pack_string_raises(m.name, NAME_LEN)
         THEN [st EXCEPT !.raised = TRUE]
         ELSE LayoutModels(Tail(ms), hlen,
                LayoutFiles(m.files, hlen,
                  [bin    |-> st.bin \o struct_pack_string(m.name, NAME_LEN)
                                     \o PackI(Len(m.files)),
                   data   |-> st.data,
                   raised |-> FALSE]))

\* lines 129-152: header length, model count, descriptors and data
PMLayout ==
    /\ pm_pc = "scanned"
    /\ model_num' = Len(models)
    /\ header_len' = HeaderLen(Len(models), file_num)
    /\ LET st == LayoutModels(models, HeaderLen(Len(models), file_num),
                              [bin |-> PackI(Len(models)), data |-> None, raised |-> FALSE])
       IN  /\ out_bin' = st.bin
           /\ data_bin' = st.data
           /\ IF st.raised
              THEN pm_pc' = "done" /\ pm_ret' = "raise_struct_pack_string"
              ELSE pm_pc' = "laid_out" /\ pm_ret' = pm_ret
    /\ UNCHANGED << path_exists, tree, models, file_num, srmodels >>
    /\ UNCHANGED notPM

\* lines 154-164: the assertion, the append of the data, the write
PMWrite ==
    /\ pm_pc = "laid_out"
    /\ pm_pc' = "done"
    /\ IF Len(out_bin) # header_len
       THEN /\ pm_ret' = "raise_header_len"
            /\ UNCHANGED << out_bin, srmodels >>
       ELSE /\ out_bin' = IF data_bin.none THEN out_bin ELSE out_bin \o data_bin.bytes
            /\ srmodels' = [exists |-> TRUE, bytes |-> out_bin']
            /\ pm_ret' = "True"
    /\ UNCHANGED << path_exists, tree, models, file_num, model_num, header_len, data_bin >>
    /\ UNCHANGED notPM

\* ------------------------------------------------ pack_models: the claims
\* the input seen through the container format: the directories of the
\* listing, and all their files in enumeration order
TreeDirs == SelectSeq(tree, LAMBDA e : e.isdir)
TreeFiles == Concat([i \in 1..Len(TreeDirs) |-> TreeDirs[i].files])
TreeDatas == [k \in 1..Len(TreeFiles) |-> TreeFiles[k].data]

\* the header length of the format: count, model descriptors, file descriptors
FormatHeaderLength == 4 + 36 * Len(TreeDirs) + 40 * Len(TreeFiles)

\* number of files of the directories before directory i
FilesBefore(i) == Len(Concat([h \in 1..(i - 1) |-> TreeDirs[h].files]))
\* 0-based position of the descriptor of directory i, and of its file j
ModelPos(i) == 4 + 36 * (i - 1) + 40 * FilesBefore(i)
FilePos(i, j) == ModelPos(i) + 36 + 40 * (j - 1)
\* the stored offset and length of file j of directory i
StoredOffset(i, j) == ReadU32(srmodels.bytes, FilePos(i, j) + 32)
StoredLength(i, j) == ReadU32(srmodels.bytes, FilePos(i, j) + 36)
\* the descriptors of the container, as <<directory, file>> pairs
Descriptors == UNION { { <<i, j>> : j \in 1..Len(TreeDirs[i].files) } : i \in 1..Len(TreeDirs) }
\* a name field: the name followed by null bytes
NameField(s) == [k \in 1..32 |-> IF k <= Len(s) THEN s[k] ELSE 0]

\* C1: when pack_models reaches its assertion, the header length computed
\* before layout equals the length of the serialized header and the format's
\* 4 + models*(32+4) + files*(32+4+4); the assertion never fails.
C1_HeaderLength ==
    /\ pm_pc = "laid_out" =>
          /\ Len(out_bin) = header_len
          /\ header_len = FormatHeaderLength
    /\ pm_ret # "raise_header_len"

\* C1 witness: the assertion is reached with two models, one of them without
\* files, and a file of zero length
C1_Witness ==
    /\ pm_pc = "laid_out"
    /\ model_num = 2 /\ file_num >= 2
    /\ \E i \in 1..Len(models) : models[i].files = <<>>
    /\ \E k \in 1..Len(TreeFiles) : TreeFiles[k].data = <<>>

\* C2: in a written container the offset stored for a file is absolute and
\* equals the header length plus the lengths of all files before it.
C2_AbsoluteOffsets ==
    pm_ret = "True" =>
        \A i \in 1..Len(TreeDirs) : \A j \in 1..Len(TreeDirs[i].files) :
            StoredOffset(i, j) =
                FormatHeaderLength
                  + SumLen(SubSeq(TreeDatas, 1, FilesBefore(i) + j - 1))

\* C2 witness: a container of two models with files whose first file is empty
\* and whose later files are not
C2_Witness ==
    /\ pm_ret = "True"
    /\ Len(TreeDirs) = 2 /\ TreeDirs[1].files # <<>> /\ TreeDirs[2].files # <<>>
    /\ TreeDatas[1] = <<>>
    /\ Len(TreeDatas) >= 3 /\ TreeDatas[2] # <<>>
    /\ StoredOffset(1, 1) = header_len

\* C3: in a written container every file region lies between the header and
\* the end of the container, and no two regions overlap.
C3_RegionsInBounds ==
    pm_ret = "True" =>
        /\ \A d \in Descriptors :
              /\ StoredOffset(d[1], d[2]) >= FormatHeaderLength
              /\ StoredOffset(d[1], d[2]) + StoredLength(d[1], d[2]) <= Len(srmodels.bytes)
        /\ \A d, e \in Descriptors :
              d # e =>
                 \/ StoredOffset(d[1], d[2]) + StoredLength(d[1], d[2]) <= StoredOffset(e[1], e[2])
                 \/ StoredOffset(e[1], e[2]) + StoredLength(e[1], e[2]) <= StoredOffset(d[1], d[2])
                 \/ StoredLength(d[1], d[2]) = 0
                 \/ StoredLength(e[1], e[2]) = 0

\* C3 witness: a container with three non-empty files
C3_Witness ==
    /\ pm_ret = "True"
    /\ Len(TreeDatas) = 3
    /\ \A k \in 1..3 : TreeDatas[k] # <<>>
    /\ Len(srmodels.bytes) > header_len

\* C4: a written container holds the number of subdirectories, for each the
\* number of its files, the descriptors in enumeration order, and the
\* payloads concatenated in that order, each at its stored offset.
C4_LayoutMatchesTree ==
    pm_ret = "True" =>
        /\ ReadU32(srmodels.bytes, 0) = Len(TreeDirs)
        /\ \A i \in 1..Len(TreeDirs) :
              /\ Slice(srmodels.bytes, ModelPos(i), 32) = NameField(TreeDirs[i].name)
              /\ ReadU32(srmodels.bytes, ModelPos(i) + 32) = Len(TreeDirs[i].files)
              /\ \A j \in 1..Len(TreeDirs[i].files) :
                    /\ Slice(srmodels.bytes, FilePos(i, j), 32)
                         = NameField(TreeDirs[i].files[j].rel_path)
                    /\ StoredLength(i, j) = Len(TreeDirs[i].files[j].data)
                    /\ Slice(srmodels.bytes, StoredOffset(i, j), StoredLength(i, j))
                         = TreeDirs[i].files[j].data
        /\ Len(srmodels.bytes) = FormatHeaderLength + SumLen(TreeDatas)
        /\ Slice(srmodels.bytes, FormatHeaderLength, SumLen(TreeDatas)) = Concat(TreeDatas)

\* C4 witness: a container written from a root that also holds a plain file,
\* with two files of different content in one model
C4_Witness ==
    /\ pm_ret = "True"
    /\ \E i \in 1..Len(tree) : ~tree[i].isdir
    /\ \E i \in 1..Len(TreeDirs) :
          /\ Len(TreeDirs[i].files) >= 2
          /\ TreeDirs[i].files[1].data # <<>>
          /\ TreeDirs[i].files[2].data # <<>>
          /\ TreeDirs[i].files[1].data # TreeDirs[i].files[2].data

PMNext == PMScan \/ PMLayout \/ PMWrite

PMIdle ==
    /\ path_exists = FALSE
    /\ tree = <<>>
    /\ pm_pc = "idle"
    /\ models = <<>>
    /\ file_num = 0
    /\ model_num = 0
    /\ header_len = 0
    /\ out_bin = <<>>
    /\ data_bin = None
    /\ srmodels = NoFile
    /\ pm_ret = "none"

\* ----------------------------------------------------- pack_assets_simple
\* file names of the bundle directory, as code points
Name_a_bin       == << 97, 46, 98, 105, 110 >>
Name_b_bin       == << 98, 46, 98, 105, 110 >>
Name_c_a         == << 99, 46, 97 >>
Name_config_json == << 99, 111, 110, 102, 105, 103, 46, 106, 115, 111, 110 >>
Name_index_json  == << 105, 110, 100, 101, 120, 46, 106, 115, 111, 110 >>
Name_sub         == << 115, 117, 98 >>

\* a payload whose bytes add up to more than 65535
Blob == [k \in 1..258 |-> 255]

\* the entries a bundle directory is drawn from: regular files with a
\* payload, and one subdirectory
AssetEntries ==
    { [name |-> n, isfile |-> TRUE, data |-> d] :
        n \in { Name_a_bin, Name_b_bin, Name_c_a, Name_config_json, Name_index_json },
        d \in { <<>>, <<7>> } }
      \cup { [name |-> Name_b_bin, isfile |-> TRUE, data |-> Blob],
             [name |-> Name_sub, isfile |-> FALSE, data |-> <<>>] }

\* the directories of at most MaxEntries entries; names are unique in a directory
AssetDirs ==
    { D \in SUBSET AssetEntries :
        /\ Cardinality(D) <= MaxEntries
        /\ \A e1, e2 \in D : e1.name = e2.name => e1 = e2 }

\* the orders in which os.listdir can return the names of a directory
Listings(D) ==
    { l \in [1..Cardinality(D) -> { e.name : e \in D }] :
        \A e \in D : \E k \in 1..Cardinality(D) : l[k] = e.name }

\* the directory entry of a name
EntryOf(D, n) == CHOOSE e \in D : e.name = n

\* line 381
skip_files == { Name_config_json }

RECURSIVE SumBytes(_, _, _)
\* sum(data[lo-1:hi]), by halves
SumBytes(data, lo, hi) ==
    IF lo > hi THEN 0
    ELSE IF lo = hi THEN data[lo]
    ELSE LET mid == (lo + hi) \div 2
         IN  SumBytes(data, lo, mid) + SumBytes(data, mid + 1, hi)

\* the sum of the payload without the 16-bit mask
compute_checksum_nomask(data) == SumBytes(data, 1, Len(data))

\* lines 363-365: sum(data) & 0xFFFF
compute_checksum(data) == SumBytes(data, 1, Len(data)) % 65536

\* int.to_bytes(2, 'little') and int.to_bytes(4, 'little')
ToBytes2(n) == << n % 256, (n \div 256) % 256 >>
ToBytes4(n) == << n % 256, (n \div 256) % 256, (n \div 65536) % 256, (n \div 16777216) % 256 >>

\* index of the last '.' of p, 0 when there is none
LastDot(p) ==
    IF \E k \in 1..Len(p) : p[k] = 46
    THEN CHOOSE k \in 1..Len(p) : p[k] = 46 /\ \A h \in (k + 1)..Len(p) : p[h] # 46
    ELSE 0

\* os.path.splitext of a name without separators: the extension starts at the
\* last dot, unless only dots precede it
splitext(p) ==
    LET d == LastDot(p) IN
    IF d > 0 /\ \E k \in 1..(d - 1) : p[k] # 46
    THEN << SubSeq(p, 1, d - 1), SubSeq(p, d, Len(p)) >>
    ELSE << p, <<>> >>

\* the key with its components swapped
sort_key_base_first(filename) == splitext(filename)

\* the key without the base name
sort_key_ext_only(filename) == << splitext(filename)[2], <<>> >>

\* lines 368-371: (extension, basename)
sort_key(filename) == << splitext(filename)[2], splitext(filename)[1] >>

RECURSIVE StrLess(_, _)
\* a < b for Python strings: lexicographic by code point
StrLess(a, b) ==
    IF b = <<>> THEN FALSE
    ELSE IF a = <<>> THEN TRUE
    ELSE IF Head(a) # Head(b) THEN Head(a) < Head(b)
    ELSE StrLess(Tail(a), Tail(b))

\* k1 < k2 for tuples of two strings
KeyLess(k1, k2) == StrLess(k1[1], k2[1]) \/ (k1[1] = k2[1] /\ StrLess(k1[2], k2[2]))

RECURSIVE InsertSorted(_, _)
\* x placed behind the elements of the sorted list whose key is not greater
InsertSorted(sl, x) ==
    IF sl = <<>> THEN << x >>
    ELSE IF KeyLess(sort_key(x), sort_key(Head(sl))) THEN << x >> \o sl
    ELSE << Head(sl) >> \o InsertSorted(Tail(sl), x)

RECURSIVE Sorted(_)
\* sorted(l, key=sort_key): a stable sort
Sorted(l) == IF l = <<>> THEN <<>> ELSE InsertSorted(Sorted(SubSeq(l, 1, Len(l) - 1)), l[Len(l)])

\* the filter without the skip list
EligibleNoSkip(D, l) == SelectSeq(l, LAMBDA f : EntryOf(D, f).isfile)

\* the filter without the os.path.isfile test
EligibleNoIsfile(D, l) == SelectSeq(l, LAMBDA f : f \notin skip_files)

\* lines 388-389: the names of the listing that are regular files and not skipped
Eligible(D, l) == SelectSeq(l, LAMBDA f : EntryOf(D, f).isfile /\ f \notin skip_files)

PAInit ==
    /\ assets_dir \in AssetDirs
    /\ pa_pc = "start"
    /\ listing = <<>>
    /\ order_changed = FALSE
    /\ file_list = <<>>
    /\ file_info_list = <<>>
    /\ merged_data = <<>>
    /\ mmap_table = <<>>
    /\ assets_bin = NoFile
    /\ prev_bin = <<>>
    /\ rerun = FALSE
    /\ pa_ret = "none"

\* pack_assets_simple is not running
PAIdle ==
    /\ assets_dir = {}
    /\ pa_pc = "idle"
    /\ listing = <<>>
    /\ order_changed = FALSE
    /\ file_list = <<>>
    /\ file_info_list = <<>>
    /\ merged_data = <<>>
    /\ mmap_table = <<>>
    /\ assets_bin = NoFile
    /\ prev_bin = <<>>
    /\ rerun = FALSE
    /\ pa_ret = "none"

\* lines 379-390: os.listdir in any order, the filter, the sort
PAList ==
    /\ pa_pc = "start"
    /\ \E l \in Listings(assets_dir) :
          /\ listing' = l
          /\ order_changed' = (rerun /\ l # listing)
          /\ file_list' = Sorted(Eligible(assets_dir, l))
    /\ merged_data' = <<>>
    /\ file_info_list' = <<>>
    /\ pa_pc' = "listed"
    /\ UNCHANGED << assets_dir, mmap_table, assets_bin, prev_bin, rerun, pa_ret >>
    /\ UNCHANGED notPA

\* the offset of a file taken from the start of the bundle file
MergeOffsetAbsolute(md, n) == 12 + 44 * n + Len(md)

\* line 397: the offset recorded for a file when merged_data holds md and n
\* files were recorded before it
MergeOffset(md, n) == Len(md)

RECURSIVE MergeFiles(_, _, _)
\* lines 392-403 for the names fl: st = [info, data]
MergeFiles(D, fl, st) ==
    IF fl = <<>> THEN st
    ELSE LET filename == Head(fl)
             bin_data == EntryOf(D, filename).data
         IN  MergeFiles(D, Tail(fl),
               [info |-> Append(st.info,
                           [file_name |-> filename,
                            offset    |-> MergeOffset(st.data, Len(st.info)),
                            file_size |-> Len(bin_data),
                            width     |-> 0,
                            height    |-> 0]),
                data |-> st.data \o << 90, 90 >> \o bin_data])

\* lines 392-403
PAMerge ==
    /\ pa_pc = "listed"
    /\ LET st == MergeFiles(assets_dir, file_list, [info |-> <<>>, data |-> <<>>])
       IN  /\ file_info_list' = st.info
           /\ merged_data' = st.data
    /\ pa_pc' = "merged"
    /\ UNCHANGED << assets_dir, listing, order_changed, file_list, mmap_table, assets_bin,
                    prev_bin, rerun, pa_ret >>
    /\ UNCHANGED notPA

\* str.encode('utf-8') of one code point (below 65536, no surrogate)
Utf8Char(c) ==
    IF c < 128 THEN << c >>
    ELSE IF c < 2048 THEN << 192 + (c \div 64), 128 + (c % 64) >>
    ELSE << 224 + (c \div 4096), 128 + ((c \div 64) % 64), 128 + (c % 64) >>

\* str.encode('utf-8')
Utf8(str) == Concat([k \in 1..Len(str) |-> Utf8Char(str[k])])

\* line 412: file_name.ljust(max_name_len, '\0')[:max_name_len]
FixedName(file_name, max_name_len) ==
    [k \in 1..max_name_len |-> IF k <= Len(file_name) THEN file_name[k] ELSE 0]

\* lines 412-417: one record of the index table
AssetRecord(info, max_name_len) ==
    Utf8(FixedName(info.file_name, max_name_len))
      \o ToBytes4(info.file_size)
      \o ToBytes4(info.offset)
      \o ToBytes2(info.width)
      \o ToBytes2(info.height)

\* lines 405-417
PAIndex ==
    /\ pa_pc = "merged"
    /\ mmap_table' = Concat([k \in 1..Len(file_info_list) |->
                               AssetRecord(file_info_list[k], NAME_LEN)])
    /\ pa_pc' = "indexed"
    /\ UNCHANGED << assets_dir, listing, order_changed, file_list, file_info_list,
                    merged_data, assets_bin, prev_bin, rerun, pa_ret >>
    /\ UNCHANGED notPA

\* the header with the length of the whole file in its third field
HeaderDataWholeFile(total_files, combined_data) ==
    ToBytes4(total_files)
      \o ToBytes4(compute_checksum(combined_data))
      \o ToBytes4(Len(combined_data) + 12)

\* lines 421-427: total_files, checksum, data length
HeaderData(total_files, combined_data) ==
    ToBytes4(total_files)
      \o ToBytes4(compute_checksum(combined_data))
      \o ToBytes4(Len(combined_data))

\* lines 419-436: the header, the write of out_file, return True
PAWrite ==
    /\ pa_pc = "indexed"
    /\ LET combined_data == mmap_table \o merged_data
           final_data == HeaderData(Len(file_info_list), combined_data) \o combined_data
       IN  assets_bin' = [exists |-> TRUE, bytes |-> final_data]
    /\ pa_ret' = "True"
    /\ pa_pc' = "done"
    /\ UNCHANGED << assets_dir, listing, order_changed, file_list, file_info_list,
                    merged_data, mmap_table, prev_bin, rerun >>
    /\ UNCHANGED notPA

\* the caller runs pack_assets_simple again on the unchanged directory
PARerun ==
    /\ pa_pc = "done"
    /\ ~rerun
    /\ rerun' = TRUE
    /\ prev_bin' = assets_bin.bytes
    /\ pa_pc' = "start"
    /\ pa_ret' = "none"
    /\ file_list' = <<>>
    /\ file_info_list' = <<>>
    /\ merged_data' = <<>>
    /\ mmap_table' = <<>>
    /\ UNCHANGED << assets_dir, listing, order_changed, assets_bin >>
    /\ UNCHANGED notPA

\* ----------------------------------------- pack_assets_simple: the claims
\* the written bundle, read through the format of the asset bundle file
BundleBytes == assets_bin.bytes
HdrTotalFiles == ReadU32(BundleBytes, 0)
HdrChecksum == ReadU32(BundleBytes, 4)
HdrPayloadLength == ReadU32(BundleBytes, 8)
\* 0-based position of index record i, and its fields
RecordPos(i) == 12 + 44 * (i - 1)
RecordNameField(i) == Slice(BundleBytes, RecordPos(i), 32)
RecordSize(i) == ReadU32(BundleBytes, RecordPos(i) + 32)
RecordOffset(i) == ReadU32(BundleBytes, RecordPos(i) + 36)
\* 0-based position of the data region
DataStart == 12 + 44 * HdrTotalFiles
\* a name field without its trailing null bytes
StripNulls(field) ==
    LET used == { k \in 1..Len(field) : field[k] # 0 }
    IN  IF used = {} THEN <<>>
        ELSE SubSeq(field, 1, CHOOSE k \in used : \A h \in used : h <= k)
RecordName(i) == StripNulls(RecordNameField(i))

\* the regular files of the directory that are not the excluded control file
BundledFiles == { e \in assets_dir : e.isfile /\ e.name # Name_config_json }
\* the 2-byte marker and the payload of record i are in the data region
BlockHolds(i, data) ==
    /\ DataStart + RecordOffset(i) + 2 + Len(data) <= Len(BundleBytes)
    /\ Slice(BundleBytes, DataStart + RecordOffset(i), 2) = << 90, 90 >>
    /\ Slice(BundleBytes, DataStart + RecordOffset(i) + 2, Len(data)) = data
\* record i names a file of the directory and its block holds that file
RecordMatchesFile(i) ==
    \E e \in assets_dir :
        /\ e.name = RecordName(i)
        /\ RecordSize(i) = Len(e.data)
        /\ BlockHolds(i, e.data)

\* the extension of a file name: from its last dot, when a character other
\* than a dot precedes that dot; and the name without it
ExtensionStart(n) ==
    LET dots == { k \in 1..Len(n) : n[k] = 46 /\ \E h \in 1..(k - 1) : n[h] # 46 }
    IN  IF dots = {} THEN Len(n) + 1 ELSE CHOOSE k \in dots : \A h \in dots : h <= k
ExtensionOf(n) == SubSeq(n, ExtensionStart(n), Len(n))
BaseNameOf(n) == SubSeq(n, 1, ExtensionStart(n) - 1)

\* C5: the header of a written bundle holds the sum mod 65536 of the bytes
\* behind it, their number, and the number of index records; the file is
\* 12 + payload_length bytes long and is index region followed by data region.
C5_HeaderConsistent ==
    pa_pc = "done" =>
        /\ Len(BundleBytes) = 12 + HdrPayloadLength
        /\ HdrChecksum = SumBytes(BundleBytes, 13, Len(BundleBytes)) % 65536
        /\ HdrTotalFiles = Len(file_info_list)
        /\ HdrTotalFiles = Cardinality(BundledFiles)
        /\ Len(mmap_table) = 44 * HdrTotalFiles
        /\ Slice(BundleBytes, 12, HdrPayloadLength) = mmap_table \o merged_data

\* C5 witness: a bundle of two files whose payload bytes add up to more
\* than 65535
C5_Witness ==
    /\ pa_pc = "done"
    /\ HdrTotalFiles >= 2
    /\ SumBytes(BundleBytes, 13, Len(BundleBytes)) > 65535

\* C6: record offsets are relative to the data region: 0 for the first
\* record, the previous offset + 2 + the previous size for the others; at
\* each offset the data region holds 0x5A 0x5A and then the file's bytes.
C6_RelativeOffsets ==
    pa_pc = "done" =>
        /\ HdrTotalFiles >= 1 => RecordOffset(1) = 0
        /\ \A i \in 1..(HdrTotalFiles - 1) :
              RecordOffset(i + 1) = RecordOffset(i) + 2 + RecordSize(i)
        /\ \A i \in 1..HdrTotalFiles : RecordMatchesFile(i)

\* C6 witness: a bundle of three files, the first empty, the second not
C6_Witness ==
    /\ pa_pc = "done"
    /\ HdrTotalFiles = 3
    /\ RecordSize(1) = 0 /\ RecordSize(2) > 0
    /\ RecordOffset(3) > 4

\* C7: the index records are in ascending (extension, base name) order, the
\* files of one extension are contiguous, and the blocks of the data region
\* follow in the order of the records.
C7_SortedIndex ==
    pa_pc = "done" =>
        /\ \A i, j \in 1..HdrTotalFiles :
              i < j =>
                 /\ KeyLess(<< ExtensionOf(RecordName(i)), BaseNameOf(RecordName(i)) >>,
                            << ExtensionOf(RecordName(j)), BaseNameOf(RecordName(j)) >>)
                 /\ RecordOffset(i) < RecordOffset(j)
                 /\ \A k \in (i + 1)..(j - 1) :
                       ExtensionOf(RecordName(i)) = ExtensionOf(RecordName(j))
                          => ExtensionOf(RecordName(k)) = ExtensionOf(RecordName(i))
        /\ \A i \in 1..HdrTotalFiles :
              \E e \in BundledFiles : e.name = RecordName(i) /\ BlockHolds(i, e.data)

\* C7 witness: c.a, a.bin and b.bin bundled in that order from a listing
\* that returned them in name order
C7_Witness ==
    /\ pa_pc = "done"
    /\ listing = << Name_a_bin, Name_b_bin, Name_c_a >>
    /\ HdrTotalFiles = 3
    /\ RecordName(1) = Name_c_a /\ RecordName(2) = Name_a_bin /\ RecordName(3) = Name_b_bin

\* C8: a second run on the unchanged directory writes the bytes the first
\* run wrote, in whatever order the directory listing returns the names.
C8_Deterministic ==
    (rerun /\ pa_pc = "done") => assets_bin.bytes = prev_bin

\* C8 witness: the second run is done, its listing came in another order
\* than the first one's, and two files of one extension were bundled
C8_Witness ==
    /\ rerun /\ pa_pc = "done"
    /\ order_changed
    /\ \E i, j \in 1..Len(file_list) :
          i # j /\ ExtensionOf(file_list[i]) = ExtensionOf(file_list[j])

\* C9: with no eligible file in the directory pack_assets_simple returns
\* True and writes 12 zero bytes: total_files, checksum and payload_length 0.
C9_EmptyBundle ==
    (pa_pc = "done" /\ BundledFiles = {}) =>
        /\ pa_ret = "True"
        /\ assets_bin.exists
        /\ BundleBytes = [k \in 1..12 |-> 0]

\* C9 witness: the bundle of a directory holding only the excluded file and
\* a subdirectory
C9_Witness ==
    /\ pa_pc = "done"
    /\ BundledFiles = {}
    /\ \E e \in assets_dir : e.name = Name_config_json
    /\ \E e \in assets_dir : ~e.isfile
    /\ HdrTotalFiles = 0

PANext == PAList \/ PAMerge \/ PAIndex \/ PAWrite \/ PARerun

\* ------------------------------------------------------ the name encoders
\* a name of n characters: ASCII "aaa...", "e-acute aa..." (one 2-byte
\* character), CJK (3-byte characters), or a name that starts with a lone
\* surrogate, as os.listdir returns for a file name that is not valid UTF-8
NameOfKind(kind, n) ==
    [k \in 1..n |->
        CASE kind = "ascii"     -> 97
          [] kind = "latin"     -> IF k = 1 THEN 233 ELSE 97
          [] kind = "cjk"       -> 20320
          [] kind = "surrogate" -> IF k = 1 THEN 56448 ELSE 97]

NameKinds == { "ascii", "latin", "cjk", "surrogate" }

\* the names the encoders are applied to
CodecNames == { NameOfKind(kind, n) : kind \in NameKinds, n \in 1..MaxNameChars }

\* str.encode('utf-8') raises UnicodeEncodeError for a surrogate
utf8_raises(str) == \E k \in 1..Len(str) : str[k] >= 55296 /\ str[k] <= 57343

NCInit ==
    /\ nc_codec \in { "struct_pack_string", "asset_record" }
    /\ \E n \in CodecNames, sz \in { 0, 258 }, off \in { 0, 2 } :
          nc_info = [file_name |-> n,
                     offset    |-> IF nc_codec = "asset_record" THEN off ELSE 0,
                     file_size |-> IF nc_codec = "asset_record" THEN sz ELSE 0,
                     width     |-> 0,
                     height    |-> 0]
    /\ nc_pc = "start"
    /\ nc_out = <<>>
    /\ nc_raised = FALSE
    /\ nc_warned = FALSE

\* no encoder is running
NCIdle ==
    /\ nc_codec = "none"
    /\ nc_info = [file_name |-> <<>>, offset |-> 0, file_size |-> 0, width |-> 0, height |-> 0]
    /\ nc_pc = "idle"
    /\ nc_out = <<>>
    /\ nc_raised = FALSE
    /\ nc_warned = FALSE

\* lines 48-68, as pack_models calls it: struct_pack_string(name, 32)
NCStructPackString ==
    /\ nc_pc = "start"
    /\ nc_codec = "struct_pack_string"
    /\ nc_raised' = struct_pack_string_raises(nc_info.file_name, NAME_LEN)
    /\ nc_out' = IF struct_pack_string_raises(nc_info.file_name, NAME_LEN) THEN <<>>
                 ELSE struct_pack_string(nc_info.file_name, NAME_LEN)
    /\ nc_warned' = FALSE
    /\ nc_pc' = "done"
    /\ UNCHANGED << nc_codec, nc_info >>
    /\ UNCHANGED notNC

\* lines 409-417: the warning, the fixed name, its encoding, the record
NCAssetRecord ==
    /\ nc_pc = "start"
    /\ nc_codec = "asset_record"
    /\ nc_warned' = (Len(nc_info.file_name) > NAME_LEN)
    /\ nc_raised' = utf8_raises(FixedName(nc_info.file_name, NAME_LEN))
    /\ nc_out' = IF utf8_raises(FixedName(nc_info.file_name, NAME_LEN)) THEN <<>>
                 ELSE AssetRecord(nc_info, NAME_LEN)
    /\ nc_pc' = "done"
    /\ UNCHANGED << nc_codec, nc_info >>
    /\ UNCHANGED notNC

\* ------------------------------------------- the name encoders: the claims
\* the name field of the encoder's result: all of it for struct_pack_string,
\* the record without its 12 bytes of size, offset, width and height
EncodedName ==
    IF nc_codec = "asset_record" THEN SubSeq(nc_out, 1, Len(nc_out) - 12) ELSE nc_out
\* the bytes of the name that was encoded
NameBytes == Utf8(nc_info.file_name)
\* the first n bytes of a byte string
FirstBytes(b, n) == SubSeq(b, 1, IF Len(b) < n THEN Len(b) ELSE n)

\* C11: every record pack_assets_simple emits is 44 bytes long: 32 bytes of
\* name, then size, offset, width 0 and height 0.
C11_RecordIs44Bytes ==
    (nc_pc = "done" /\ nc_codec = "asset_record" /\ ~nc_raised) =>
        /\ Len(nc_out) = 44
        /\ ReadU32(nc_out, 32) = nc_info.file_size
        /\ ReadU32(nc_out, 36) = nc_info.offset
        /\ SubSeq(nc_out, 41, 44) = << 0, 0, 0, 0 >>

\* C12: encoding a name never raises; a name longer than the field is
\* truncated to the field width, a shorter one padded with null bytes to
\* exactly 32 bytes.
C12_EncodeTotal ==
    nc_pc = "done" =>
        /\ ~nc_raised
        /\ Len(EncodedName) = 32
        /\ Len(NameBytes) <= 32 =>
              EncodedName = NameBytes \o [k \in 1..(32 - Len(NameBytes)) |-> 0]
        /\ Len(NameBytes) > 32 =>
              (EncodedName = FirstBytes(NameBytes, 32) /\ nc_warned)

\* C13: the 32-byte encoding of a name of at most 32 bytes decodes, by
\* stripping the trailing null bytes, to the name; the encoding of a longer
\* name decodes to its first 32 bytes.
C13_RoundTrip ==
    nc_pc = "done" =>
        /\ ~nc_raised
        /\ Len(EncodedName) = 32
        /\ StripNulls(EncodedName) = FirstBytes(NameBytes, 32)

NCNext == NCStructPackString \/ NCAssetRecord

\* ------------------------------------------------------- compute_checksum
\* 129 bytes of 255 sum to 32895: two such blocks pass 65535
Block255 == [k \in 1..129 |-> 255]

RECURSIVE Repeat(_, _)
Repeat(b, n) == IF n = 0 THEN <<>> ELSE b \o Repeat(b, n - 1)

Tails == UNION { [1..n -> { 1, 255 }] : n \in 0..MaxTail }

\* the byte strings compute_checksum is applied to
Chunks == { Repeat(Block255, r) \o t : r \in 0..MaxReps, t \in Tails }

CSInit ==
    /\ cs_a \in Chunks
    /\ cs_b \in Chunks
    /\ cs_pc = "start"
    /\ cs_of_a = 0
    /\ cs_of_b = 0
    /\ cs_of_ab = 0

\* compute_checksum is not being applied
CSIdle ==
    /\ cs_a = <<>>
    /\ cs_b = <<>>
    /\ cs_pc = "idle"
    /\ cs_of_a = 0
    /\ cs_of_b = 0
    /\ cs_of_ab = 0

\* lines 363-365 applied to a, to b and to a + b
CSCompute ==
    /\ cs_pc = "start"
    /\ cs_of_a' = compute_checksum(cs_a)
    /\ cs_of_b' = compute_checksum(cs_b)
    /\ cs_of_ab' = compute_checksum(cs_a \o cs_b)
    /\ cs_pc' = "done"
    /\ UNCHANGED << cs_a, cs_b >>
    /\ UNCHANGED notCS

CSNext == CSCompute

\* the sum of the bytes of a byte string
ByteSum(data) == SumBytes(data, 1, Len(data))

\* C14: the checksum is the sum of the bytes modulo 65536, lies in 0..65535,
\* is additive modulo 65536 over concatenation, and is 0 for no bytes.
C14_ChecksumAdditive ==
    cs_pc = "done" =>
        /\ cs_of_a \in 0..65535 /\ cs_of_b \in 0..65535 /\ cs_of_ab \in 0..65535
        /\ cs_of_a = ByteSum(cs_a) % 65536
        /\ cs_of_ab = ByteSum(cs_a \o cs_b) % 65536
        /\ cs_of_ab = (cs_of_a + cs_of_b) % 65536
        /\ cs_a = <<>> => cs_of_a = 0

\* two strings whose checksums do not wrap but whose concatenation's does
C14_Witness ==
    /\ cs_pc = "done"
    /\ ByteSum(cs_a) <= 65535 /\ ByteSum(cs_b) <= 65535
    /\ ByteSum(cs_a \o cs_b) > 65535
    /\ cs_of_ab = ByteSum(cs_a \o cs_b) - 65536

\* ------------------------------------------------------------ build_assets
\* model names a build is asked for, as code points
\* "mn6_cn": multinet, Chinese marker, needs fst
Name_mn6_cn == << 109, 110, 54, 95, 99, 110 >>
\* "MN7_en": multinet by its lower-cased name, English marker
Name_MN7_en == << 77, 78, 55, 95, 101, 110 >>
\* "mn5": multinet, no language marker
Name_mn5 == << 109, 110, 53 >>
\* "mn4_en": multinet, not present under the model root
Name_mn4_en == << 109, 110, 52, 95, 101, 110 >>
\* "wn9_cn": wakenet whose name holds a Chinese marker
Name_wn9_cn == << 119, 110, 57, 95, 99, 110 >>
\* "vadnet1_en": vadnet whose name holds an English marker
Name_vadnet1_en == << 118, 97, 100, 110, 101, 116, 49, 95, 101, 110 >>
\* "nsnet1": nsnet
Name_nsnet1 == << 110, 115, 110, 101, 116, 49 >>
\* "x_cn": unknown type, an existing relative path
Name_x_cn == << 120, 95, 99, 110 >>
\* "/m/mn_cn": an existing absolute path: a custom model
Name_abs_mn_cn == << 47, 109, 47, 109, 110, 95, 99, 110 >>
\* "wn" followed by 31 "x": a wakenet name of NAME_LEN + 1 characters
Name_wn_long == [k \in 1..(NAME_LEN + 1) |-> IF k = 1 THEN 119 ELSE IF k = 2 THEN 110 ELSE 120]

\* the substrings the code looks for
Str_wn == << 119, 110 >>
Str_wakenet == << 119, 97, 107, 101, 110, 101, 116 >>
Str_vadnet == << 118, 97, 100, 110, 101, 116 >>
Str_vadn == << 118, 97, 100, 110 >>
Str_nsnet == << 110, 115, 110, 101, 116 >>
Str_nsn == << 110, 115, 110 >>
Str_mn == << 109, 110 >>
Str_multinet == << 109, 117, 108, 116, 105, 110, 101, 116 >>
Str__cn == << 95, 99, 110 >>
Str_cn_ == << 99, 110, 95 >>
Str__en == << 95, 101, 110 >>
Str_en_ == << 101, 110, 95 >>
Str_mn6 == << 109, 110, 54 >>
Str_mn7 == << 109, 110, 55 >>
\* "fst": the extra model Multinet6/7 needs
Name_fst == << 102, 115, 116 >>

\* the names a build can be asked for
ModelNames == { Name_mn6_cn, Name_MN7_en, Name_mn5, Name_mn4_en, Name_wn9_cn,
                Name_vadnet1_en, Name_nsnet1, Name_x_cn, Name_abs_mn_cn, Name_wn_long }

\* the requests: at most MaxRequested names, in any order, repeats allowed
Requests == UNION { [1..n -> ModelNames] : n \in 0..MaxRequested }

\* what exists on disk: [dir, name] is <esp_sr_model_path>/<dir>/<name>, and
\* dir "" is the name taken as a path of its own
ExistingPaths ==
    { [dir |-> "multinet_model", name |-> Name_mn6_cn],
      [dir |-> "multinet_model", name |-> Name_MN7_en],
      [dir |-> "multinet_model", name |-> Name_mn5],
      [dir |-> "multinet_model", name |-> Name_fst],
      [dir |-> "wakenet_model",  name |-> Name_wn9_cn],
      [dir |-> "wakenet_model",  name |-> Name_wn_long],
      [dir |-> "vadnet_model",   name |-> Name_vadnet1_en],
      [dir |-> "nsnet_model",    name |-> Name_nsnet1],
      [dir |-> "",               name |-> Name_x_cn],
      [dir |-> "",               name |-> Name_abs_mn_cn] }

\* a wake word argument: None, or a string
WakeNone == [none |-> TRUE, text |-> <<>>]
Phrase(t) == [none |-> FALSE, text |-> t]
\* None, " " and "hi "
CnWakeWords == { WakeNone, Phrase(<< 32 >>), Phrase(<< 104, 105, 32 >>) }
\* None, "" and "yo"
EnWakeWords == { WakeNone, Phrase(<<>>), Phrase(<< 121, 111 >>) }
\* the threshold argument, in tenths: the default 0.2, and 0.5
Thresholds == { 2, 5 }

\* the contents of a bundle: the manifest and the model directories packed
NoManifest == [version |-> 0]
NoContent == [index |-> NoManifest, srmodels |-> {}]
NoBundle == [exists |-> FALSE, content |-> NoContent]
\* a destination file left by an earlier build
OldBundle == [exists |-> TRUE, content |-> NoContent]
\* a destination file whose copy stopped half way
TruncatedBundle == [exists |-> TRUE, content |-> [index |-> [truncated |-> TRUE], srmodels |-> {}]]
NoIndex == [exists |-> FALSE, data |-> NoManifest]
NoInfo == [none |-> TRUE]

\* str.lower() on ASCII
str_lower(s) == [k \in 1..Len(s) |-> IF s[k] >= 65 /\ s[k] <= 90 THEN s[k] + 32 ELSE s[k]]
\* s.startswith(p)
startswith(s, p) == Len(p) <= Len(s) /\ SubSeq(s, 1, Len(p)) = p
\* p in s
str_in(p, s) == \E k \in 0..(Len(s) - Len(p)) : SubSeq(s, k + 1, k + Len(p)) = p
\* str.strip(): without the leading and trailing white space
IsSpace(c) == c \in { 9, 10, 11, 12, 13, 28, 29, 30, 31, 32, 133, 160, 12288 }
str_strip(s) ==
    IF \A k \in 1..Len(s) : IsSpace(s[k]) THEN <<>>
    ELSE LET first == CHOOSE k \in 1..Len(s) :
                         ~IsSpace(s[k]) /\ \A h \in 1..(k - 1) : IsSpace(s[h])
             last  == CHOOSE k \in 1..Len(s) :
                         ~IsSpace(s[k]) /\ \A h \in (k + 1)..Len(s) : IsSpace(s[h])
         IN  SubSeq(s, first, last)

\* lines 167-183: the type of a model, from its lower-cased name
detect_model_type(model_name) ==
    LET model_name_lower == str_lower(model_name) IN
    IF startswith(model_name_lower, Str_wn) \/ str_in(Str_wakenet, model_name_lower)
    THEN "wakenet"
    ELSE IF startswith(model_name_lower, Str_vadnet) \/ str_in(Str_vadn, model_name_lower)
    THEN "vadnet"
    ELSE IF startswith(model_name_lower, Str_nsnet) \/ str_in(Str_nsn, model_name_lower)
    THEN "nsnet"
    ELSE IF startswith(model_name_lower, Str_mn) \/ str_in(Str_multinet, model_name_lower)
    THEN "multinet"
    ELSE "unknown"

\* lines 186-207: the path of a model, none when it does not exist
get_model_path(model_name, model_type) ==
    LET model_path ==
          [dir  |-> CASE model_type = "wakenet"  -> "wakenet_model"
                      [] model_type = "vadnet"   -> "vadnet_model"
                      [] model_type = "nsnet"    -> "nsnet_model"
                      [] model_type = "multinet" -> "multinet_model"
                      [] OTHER                   -> "",
           name |-> model_name]
    IN  [none |-> model_path \notin ExistingPaths, path |-> model_path]

\* os.path.isabs and os.path.basename
isabs(p) == Len(p) > 0 /\ p[1] = 47
basename(p) ==
    IF \E k \in 1..Len(p) : p[k] = 47
    THEN LET last == CHOOSE k \in 1..Len(p) :
                        p[k] = 47 /\ \A h \in (k + 1)..Len(p) : p[h] # 47
         IN  SubSeq(p, last + 1, Len(p))
    ELSE p

RECURSIVE get_model_paths(_)
\* lines 210-241: the models that exist, in the order asked for
get_model_paths(names) ==
    IF names = <<>> THEN <<>>
    ELSE LET model_name == Head(names)
             custom == [dir |-> "", name |-> model_name]
             model_type == detect_model_type(model_name)
             found == get_model_path(model_name, model_type)
         IN  (IF isabs(model_name) /\ custom \in ExistingPaths
              THEN << [model_type |-> "custom", model_name |-> basename(model_name),
                       model_path |-> custom] >>
              ELSE IF ~found.none
              THEN << [model_type |-> model_type, model_name |-> model_name,
                       model_path |-> found.path] >>
              ELSE <<>>)
             \o get_model_paths(Tail(names))

\* the language scan without the test of the model type
get_languages_any_type(ml) ==
    (IF \E i \in 1..Len(ml) :
            str_in(Str__cn, ml[i].model_name) \/ str_in(Str_cn_, ml[i].model_name)
     THEN << "cn" >> ELSE <<>>)
    \o
    (IF \E i \in 1..Len(ml) :
            str_in(Str__en, ml[i].model_name) \/ str_in(Str_en_, ml[i].model_name)
     THEN << "en" >> ELSE <<>>)

\* lines 244-263: the sorted languages the multinet model names show
get_languages_from_models(ml) ==
    (IF \E i \in 1..Len(ml) :
            /\ ml[i].model_type = "multinet"
            /\ str_in(Str__cn, ml[i].model_name) \/ str_in(Str_cn_, ml[i].model_name)
     THEN << "cn" >> ELSE <<>>)
    \o
    (IF \E i \in 1..Len(ml) :
            /\ ml[i].model_type = "multinet"
            /\ str_in(Str__en, ml[i].model_name) \/ str_in(Str_en_, ml[i].model_name)
     THEN << "en" >> ELSE <<>>)

\* lines 266-336: the directories copied to the build directory, fst added for
\* Multinet6/7, and the result: "srmodels.bin", or "None" when nothing was
\* copied or pack_models raised on a name
process_sr_models(ml) ==
    LET copied == { ml[i].model_name : i \in { h \in 1..Len(ml) : ml[h].model_path \in ExistingPaths } }
        needs_fst == \E i \in 1..Len(ml) :
                        /\ ml[i].model_type = "multinet"
                        /\ str_in(Str_mn6, ml[i].model_name) \/ str_in(Str_mn7, ml[i].model_name)
        dirs == copied \cup
                (IF needs_fst /\ [dir |-> "multinet_model", name |-> Name_fst] \in ExistingPaths
                 THEN { Name_fst } ELSE {})
    IN  [dirs |-> dirs,
         ret  |-> IF ml = <<>> \/ dirs = {} THEN "None"
                  ELSE IF \E n \in dirs : struct_pack_string_raises(n, NAME_LEN) THEN "None"
                  ELSE "srmodels.bin"]

\* every model taken for a multinet model
multinet_models_any_type(ml) == [i \in 1..Len(ml) |-> ml[i].model_name]

\* line 487: the names of the multinet models
multinet_models(ml) ==
    LET sel == SelectSeq(ml, LAMBDA m : m.model_type = "multinet")
    IN  [i \in 1..Len(sel) |-> sel[i].model_name]

\* a wake word taken as given when it is a string, blank or not
has_wake_word_nostrip(w) == ~w.none

\* lines 505 and 518: `wake_word and wake_word.strip()`
has_wake_word(w) == ~w.none /\ w.text # <<>> /\ str_strip(w.text) # <<>>

\* lines 494-529: the multinet_model object, none without multinet models
MultinetModelInfo(ml, langs, cn, en, thr) ==
    IF multinet_models(ml) = <<>> THEN NoInfo
    ELSE [none |-> FALSE,
          info |-> [languages |-> IF langs # <<>> THEN langs ELSE << "cn" >>,
                    duration  |-> 3000,
                    threshold |-> thr,
                    commands  |->
                       [L \in { l \in { "cn", "en" } :
                                  /\ \E k \in 1..Len(langs) : langs[k] = l
                                  /\ has_wake_word(IF l = "cn" THEN cn ELSE en) }
                          |-> LET w == IF L = "cn" THEN cn ELSE en
                              IN  << [command |-> w.text, text |-> w.text, action |-> "wake"] >>]]]

\* lines 344-352: index_data
IndexData(sr, info) ==
    [k \in { "version" } \cup (IF sr # "None" THEN { "srmodels" } ELSE {})
                         \cup (IF ~info.none THEN { "multinet_model" } ELSE {})
       |-> CASE k = "version"  -> 1
             [] k = "srmodels" -> sr
             [] OTHER          -> info.info]

\* the finally block leaving the directory in place
rmtree_skipped(exists) == exists

\* lines 561-562: temp_build exists afterwards?
rmtree_if_exists(exists) == FALSE

\* the copy leaving the destination as it was
copy2_not_written(src, dst) == dst

\* line 542: shutil.copy2(image_file, output_path)
copy2(src, dst) == [exists |-> TRUE, content |-> src.content]

\* the build going on to the manifest whatever the container step returned
after_container_unchecked(sr) == "manifest"

\* lines 482-484: `if not srmodels: return False`
after_container(sr) == IF sr = "None" THEN "teardown" ELSE "manifest"

BAInit ==
    /\ model_names \in Requests
    /\ cn_wake_word \in CnWakeWords
    /\ en_wake_word \in EnWakeWords
    /\ threshold \in Thresholds
    /\ temp_build_dir \in BOOLEAN
    /\ output_file \in { NoBundle, OldBundle }
    /\ output_before = output_file
    /\ ba_pc = "start"
    /\ model_list = <<>>
    /\ sr_models_build_dir = {}
    /\ ba_srmodels = "None"
    /\ languages = <<>>
    /\ multinet_model_info = NoInfo
    /\ index_json = NoIndex
    /\ image_file = NoBundle
    /\ ba_built = NoBundle
    /\ ba_fault = "none"
    /\ ba_error = "none"
    /\ ba_ret = "none"
    /\ teardown_runs = 0
    /\ teardown_removed = 0
    /\ ba_trace = <<>>

\* build_assets is not running
BAIdle ==
    /\ model_names = <<>>
    /\ cn_wake_word = WakeNone
    /\ en_wake_word = WakeNone
    /\ threshold = 2
    /\ temp_build_dir = FALSE
    /\ output_file = NoBundle
    /\ output_before = NoBundle
    /\ ba_pc = "idle"
    /\ model_list = <<>>
    /\ sr_models_build_dir = {}
    /\ ba_srmodels = "None"
    /\ languages = <<>>
    /\ multinet_model_info = NoInfo
    /\ index_json = NoIndex
    /\ image_file = NoBundle
    /\ ba_built = NoBundle
    /\ ba_fault = "none"
    /\ ba_error = "none"
    /\ ba_ret = "none"
    /\ teardown_runs = 0
    /\ teardown_removed = 0
    /\ ba_trace = <<>>

baInputs == << model_names, cn_wake_word, en_wake_word, threshold, output_before >>

\* lines 454-463: a stale temp_build is removed, the directories are made;
\* rmtree and makedirs can raise
BAStart ==
    /\ ba_pc = "start"
    /\ \E fault \in { "none", "rmtree", "makedirs", "makedirs_assets" } :
          /\ fault = "rmtree" => temp_build_dir
          /\ ba_fault' = fault
          /\ temp_build_dir' = CASE fault = "rmtree"   -> TRUE
                                 [] fault = "makedirs" -> FALSE
                                 [] OTHER              -> TRUE
          /\ ba_pc' = IF fault = "none" THEN "collect" ELSE "except"
    /\ UNCHANGED << baInputs, output_file, model_list, sr_models_build_dir, ba_srmodels,
                    languages, multinet_model_info, index_json, image_file, ba_built,
                    ba_error, ba_ret, teardown_runs, teardown_removed >>
    /\ ba_trace' = Append(ba_trace, "Init")
    /\ UNCHANGED notBA

\* lines 469-473: CollectModels
BACollectModels ==
    /\ ba_pc = "collect"
    /\ model_list' = get_model_paths(model_names)
    /\ IF get_model_paths(model_names) = <<>>
       THEN ba_pc' = "teardown" /\ ba_ret' = "False" /\ ba_error' = "no_models"
       ELSE ba_pc' = "container" /\ UNCHANGED << ba_ret, ba_error >>
    /\ UNCHANGED << baInputs, output_file, temp_build_dir, sr_models_build_dir, ba_srmodels,
                    languages, multinet_model_info, index_json, image_file, ba_built,
                    ba_fault, teardown_runs, teardown_removed >>
    /\ ba_trace' = Append(ba_trace, "CollectModels")
    /\ UNCHANGED notBA

\* lines 480-484: BuildModelContainer; copytree can raise
BABuildModelContainer ==
    /\ ba_pc = "container"
    /\ \E fault \in { "none", "copytree" } :
          IF fault # "none"
          THEN /\ ba_fault' = fault
               /\ ba_pc' = "except"
               /\ UNCHANGED << sr_models_build_dir, ba_srmodels, ba_ret, ba_error >>
          ELSE /\ sr_models_build_dir' = process_sr_models(model_list).dirs
               /\ ba_srmodels' = process_sr_models(model_list).ret
               /\ ba_pc' = after_container(process_sr_models(model_list).ret)
               /\ IF after_container(process_sr_models(model_list).ret) = "teardown"
                  THEN ba_ret' = "False" /\ ba_error' = "srmodels_failed"
                  ELSE UNCHANGED << ba_ret, ba_error >>
               /\ UNCHANGED ba_fault
    /\ UNCHANGED << baInputs, output_file, temp_build_dir, model_list, languages,
                    multinet_model_info, index_json, image_file, ba_built,
                    teardown_runs, teardown_removed >>
    /\ ba_trace' = Append(ba_trace, "BuildModelContainer")
    /\ UNCHANGED notBA

\* lines 486-532: GenerateManifest; opening index.json can raise
BAGenerateManifest ==
    /\ ba_pc = "manifest"
    /\ languages' = get_languages_from_models(model_list)
    /\ multinet_model_info' = MultinetModelInfo(model_list, get_languages_from_models(model_list),
                                                cn_wake_word, en_wake_word, threshold)
    /\ \E fault \in { "none", "open" } :
          IF fault # "none"
          THEN ba_fault' = fault /\ ba_pc' = "except" /\ UNCHANGED index_json
          ELSE /\ index_json' = [exists |-> TRUE,
                                 data   |-> IndexData(ba_srmodels, multinet_model_info')]
               /\ ba_pc' = "bundle"
               /\ UNCHANGED ba_fault
    /\ UNCHANGED << baInputs, output_file, temp_build_dir, model_list, sr_models_build_dir,
                    ba_srmodels, image_file, ba_built, ba_error, ba_ret,
                    teardown_runs, teardown_removed >>
    /\ ba_trace' = Append(ba_trace, "GenerateManifest")
    /\ UNCHANGED notBA

\* lines 534-538: BuildAssetBundle; pack_assets_simple returns True or raises
BABuildAssetBundle ==
    /\ ba_pc = "bundle"
    /\ \E fault \in { "none", "write" } :
          IF fault # "none"
          THEN ba_fault' = fault /\ ba_pc' = "except" /\ UNCHANGED << image_file, ba_built >>
          ELSE /\ image_file' = [exists  |-> TRUE,
                                 content |-> [index    |-> index_json.data,
                                              srmodels |-> sr_models_build_dir]]
               /\ ba_built' = image_file'
               /\ ba_pc' = "finalize"
               /\ UNCHANGED ba_fault
    /\ UNCHANGED << baInputs, output_file, temp_build_dir, model_list, sr_models_build_dir,
                    ba_srmodels, languages, multinet_model_info, index_json, ba_error, ba_ret,
                    teardown_runs, teardown_removed >>
    /\ ba_trace' = Append(ba_trace, "BuildAssetBundle")
    /\ UNCHANGED notBA

\* between the bundle being written and line 541, something else removes it
BAImageRemoved ==
    /\ ba_pc = "finalize"
    /\ image_file.exists
    /\ image_file' = NoBundle
    /\ UNCHANGED << baInputs, output_file, temp_build_dir, ba_pc, model_list,
                    sr_models_build_dir, ba_srmodels, languages, multinet_model_info,
                    index_json, ba_built, ba_fault, ba_error, ba_ret,
                    teardown_runs, teardown_removed >>
    /\ UNCHANGED ba_trace
    /\ UNCHANGED notBA

\* lines 540-552: Finalize; copy2 can raise when it opens the destination,
\* while it writes it (the destination is left truncated), and when it copies
\* the file times and mode after the data (the destination is complete)
BAFinalize ==
    /\ ba_pc = "finalize"
    /\ IF image_file.exists
       THEN \E fault \in { "none", "copy2_open", "copy2_write", "copy2_stat" } :
               IF fault # "none"
               THEN /\ ba_fault' = fault
                    /\ ba_pc' = "except"
                    /\ output_file' = CASE fault = "copy2_open"  -> output_file
                                         [] fault = "copy2_write" -> TruncatedBundle
                                         [] OTHER -> copy2(image_file, output_file)
                    /\ UNCHANGED << ba_ret, ba_error >>
               ELSE /\ output_file' = copy2(image_file, output_file)
                    /\ ba_ret' = "True"
                    /\ ba_pc' = "teardown"
                    /\ UNCHANGED << ba_fault, ba_error >>
       ELSE /\ ba_ret' = "False"
            /\ ba_error' = "missing_output"
            /\ ba_pc' = "teardown"
            /\ UNCHANGED << output_file, ba_fault >>
    /\ UNCHANGED << baInputs, temp_build_dir, model_list, sr_models_build_dir, ba_srmodels,
                    languages, multinet_model_info, index_json, image_file, ba_built,
                    teardown_runs, teardown_removed >>
    /\ ba_trace' = Append(ba_trace, "Finalize")
    /\ UNCHANGED notBA

\* lines 554-558: the except clause
BAExcept ==
    /\ ba_pc = "except"
    /\ ba_ret' = "False"
    /\ ba_error' = "exception"
    /\ ba_pc' = "teardown"
    /\ UNCHANGED << baInputs, output_file, temp_build_dir, model_list, sr_models_build_dir,
                    ba_srmodels, languages, multinet_model_info, index_json, image_file,
                    ba_built, ba_fault, teardown_runs, teardown_removed >>
    /\ UNCHANGED ba_trace
    /\ UNCHANGED notBA

\* lines 559-562: the finally block, then the return
BATeardown ==
    /\ ba_pc = "teardown"
    /\ teardown_runs' = teardown_runs + 1
    /\ teardown_removed' = IF temp_build_dir THEN teardown_removed + 1 ELSE teardown_removed
    /\ temp_build_dir' = (temp_build_dir /\ rmtree_if_exists(temp_build_dir))
    /\ index_json' = IF temp_build_dir THEN NoIndex ELSE index_json
    /\ image_file' = IF temp_build_dir THEN NoBundle ELSE image_file
    /\ ba_pc' = "returned"
    /\ UNCHANGED << baInputs, output_file, model_list, sr_models_build_dir, ba_srmodels,
                    languages, multinet_model_info, ba_built, ba_fault, ba_error, ba_ret >>
    /\ UNCHANGED ba_trace
    /\ UNCHANGED notBA

BANext ==
    \/ BAStart
    \/ BACollectModels
    \/ BABuildModelContainer
    \/ BAGenerateManifest
    \/ BABuildAssetBundle
    \/ BAImageRemoved
    \/ BAFinalize
    \/ BAExcept
    \/ BATeardown

\* ------------------------------------------------ build_assets: the claims
\* what each name of ModelNames is: the type it has to be taken for, "custom"
\* for the existing absolute path, "missing" for the one that does not exist
ExpectedType(n) ==
    CASE n = Name_mn6_cn     -> "multinet"
      [] n = Name_MN7_en     -> "multinet"
      [] n = Name_mn5        -> "multinet"
      [] n = Name_mn4_en     -> "missing"
      [] n = Name_wn9_cn     -> "wakenet"
      [] n = Name_wn_long    -> "wakenet"
      [] n = Name_vadnet1_en -> "vadnet"
      [] n = Name_nsnet1     -> "nsnet"
      [] n = Name_x_cn       -> "unknown"
      [] n = Name_abs_mn_cn  -> "custom"

\* the supplied names that exist and are multinet models
SuppliedMultinet ==
    { model_names[i] : i \in { h \in 1..Len(model_names) :
                                 ExpectedType(model_names[h]) = "multinet" } }

\* the language markers, and the languages the supplied multinet names show
Markers(L) == IF L = "cn" THEN { Str__cn, Str_cn_ } ELSE { Str__en, Str_en_ }
DetectedLanguage(L) == \E n \in SuppliedMultinet : \E m \in Markers(L) : str_in(m, n)

\* a wake phrase that is a string with a character that is not white space
NonBlank(w) == ~w.none /\ \E k \in 1..Len(w.text) : ~IsSpace(w.text[k])
WakeWordFor(L) == IF L = "cn" THEN cn_wake_word ELSE en_wake_word

\* the manifest in the workspace
HasMultinetModel == "multinet_model" \in DOMAIN index_json.data
ManifestLanguages == index_json.data.multinet_model.languages
ManifestCommands == index_json.data.multinet_model.commands

\* C16: the manifest a build writes has the multinet_model object exactly
\* when a supplied model that exists was recognized as a multinet model;
\* wake phrases and threshold play no part.
C16_MultinetModelIffRecognized ==
    index_json.exists =>
        /\ HasMultinetModel <=> (SuppliedMultinet # {})
        /\ (\A i \in 1..Len(model_names) :
               ExpectedType(model_names[i]) \in { "wakenet", "vadnet", "nsnet", "unknown",
                                                  "custom", "missing" })
              => ~HasMultinetModel

\* a build given a wakenet model with a language marker, a multinet model and
\* a wake phrase: the object is there
C16_Witness ==
    /\ index_json.exists
    /\ HasMultinetModel
    /\ \E i \in 1..Len(model_names) : model_names[i] = Name_wn9_cn
    /\ NonBlank(cn_wake_word)
    /\ threshold = 5
    /\ index_json.data.multinet_model.threshold = 5

\* C17: commands has a key for a language exactly when that language was
\* detected from the multinet model names and its wake phrase is non-empty
\* after stripping white space; the entry is the single wake record with the
\* phrase, and every key of commands is one of languages.
C17_CommandsIffDetectedAndPhrase ==
    (index_json.exists /\ HasMultinetModel) =>
        \A L \in { "cn", "en" } :
            /\ (L \in DOMAIN ManifestCommands) <=> (DetectedLanguage(L) /\ NonBlank(WakeWordFor(L)))
            /\ L \in DOMAIN ManifestCommands =>
                  /\ ManifestCommands[L] = << [command |-> WakeWordFor(L).text,
                                               text    |-> WakeWordFor(L).text,
                                               action  |-> "wake"] >>
                  /\ \E k \in 1..Len(ManifestLanguages) : ManifestLanguages[k] = L
            /\ DOMAIN ManifestCommands \subseteq { "cn", "en" }

\* both languages detected, a phrase for cn, a blank string for en: commands
\* has cn and not en
C17_Witness ==
    /\ index_json.exists
    /\ HasMultinetModel
    /\ ManifestLanguages = << "cn", "en" >>
    /\ NonBlank(cn_wake_word)
    /\ ~en_wake_word.none /\ ~NonBlank(en_wake_word)
    /\ DOMAIN ManifestCommands = { "cn" }

\* C18: languages holds cn exactly when a multinet name has a Chinese marker
\* and en exactly when one has an English marker, sorted and without
\* duplicates, whatever the order of the models; with multinet models and no
\* marker it is [cn]; other models' names contribute nothing.
C18_LanguagesFromMultinetNames ==
    (index_json.exists /\ HasMultinetModel) =>
        /\ ManifestLanguages \in { << "cn" >>, << "en" >>, << "cn", "en" >> }
        /\ IF DetectedLanguage("cn") \/ DetectedLanguage("en")
           THEN \A L \in { "cn", "en" } :
                   (\E k \in 1..Len(ManifestLanguages) : ManifestLanguages[k] = L)
                      <=> DetectedLanguage(L)
           ELSE ManifestLanguages = << "cn" >>

\* the English model asked for before the Chinese one, next to nothing else
C18_Witness ==
    /\ index_json.exists
    /\ model_names = << Name_MN7_en, Name_mn6_cn >>
    /\ HasMultinetModel
    /\ ManifestLanguages = << "cn", "en" >>

C20_SuccessOnlyAfterCopy ==
    /\ ba_ret = "True" =>
          /\ ba_built.exists
          /\ output_file = [exists |-> TRUE, content |-> ba_built.content]
          /\ ba_error = "none"
    /\ ba_error = "missing_output" =>
          /\ ba_ret = "False"
          /\ ba_fault = "none"
          /\ output_file = output_before
    /\ (ba_pc \in { "teardown", "returned" } /\ ba_built.exists /\ ba_fault = "none"
          /\ ba_ret = "False") => ba_error = "missing_output"

\* a successful build over a destination an earlier build had left
C20_Witness ==
    /\ ba_pc = "returned"
    /\ ba_ret = "True"
    /\ output_before = OldBundle
    /\ output_file = [exists |-> TRUE, content |-> ba_built.content]
    /\ output_file # output_before

\* the bundle was removed before Finalize: failure, destination untouched
C20_MissingOutput ==
    /\ ba_pc = "returned"
    /\ ba_error = "missing_output"
    /\ ba_ret = "False"
    /\ output_file = output_before

\* a supplied name that does not exist, or no supplied name that does
UserInputError ==
    \/ \E i \in 1..Len(model_names) : ExpectedType(model_names[i]) = "missing"
    \/ \A i \in 1..Len(model_names) : ExpectedType(model_names[i]) = "missing"

\* C21: when a supplied model name does not resolve to an existing path, or
\* no model is found, the build fails and produces no model container, no
\* manifest, no bundle, and does not write the destination.
C21_UserInputErrorAborts ==
    UserInputError =>
        /\ ba_srmodels = "None"
        /\ sr_models_build_dir = {}
        /\ ~index_json.exists
        /\ ~image_file.exists
        /\ ~ba_built.exists
        /\ output_file = output_before
        /\ ba_pc = "returned" => ba_ret = "False"

\* the steps of a build, in order
StepOrder == << "Init", "CollectModels", "BuildModelContainer", "GenerateManifest",
                "BuildAssetBundle", "Finalize" >>

\* C23: the steps that have run are an initial part of Init, CollectModels,
\* BuildModelContainer, GenerateManifest, BuildAssetBundle, Finalize, each at
\* most once; once a step has failed (a failure return or a raised exception)
\* no step starts; the manifest exists only with a model container built, and
\* the bundle only with a manifest.
C23_StepsInOrder ==
    /\ [](/\ Len(ba_trace) <= Len(StepOrder)
          /\ ba_trace = SubSeq(StepOrder, 1, Len(ba_trace))
          /\ index_json.exists => ba_srmodels = "srmodels.bin"
          /\ ba_built.exists => ("srmodels" \in DOMAIN ba_built.content.index))
    /\ [][(ba_ret = "False" \/ ba_fault # "none") => ba_trace' = ba_trace]_vars

\* a build whose model container step failed: three steps ran, then it returned
C23_Witness ==
    /\ ba_pc = "returned"
    /\ ba_error = "srmodels_failed"
    /\ ba_trace = << "Init", "CollectModels", "BuildModelContainer" >>
    /\ ~index_json.exists
    /\ ~ba_built.exists

\* C25: when build_assets returns failure the destination file is what it
\* was when the build was called.
C25_FailureLeavesDestination ==
    (ba_pc = "returned" /\ ba_ret = "False") => output_file = output_before

\* --------------------------------------- two builds that overlap in time
\* the builds, and the destination paths they can be given
Builds == { 1, 2 }
DestPaths == { [dir |-> "out", file |-> "a.bin"],
               [dir |-> "out", file |-> "b.bin"],
               [dir |-> "other", file |-> "c.bin"] }
DestDirs == { d.dir : d \in DestPaths }

\* line 455: temp_build_dir = dirname(output_path)/temp_build, named by the
\* directory of the destination
TempBuildDir(output_path) == output_path.dir

\* a workspace directory: who made it, and who last wrote assets/srmodels.bin,
\* assets/index.json and output/assets.bin in it (0: nobody, the file is absent)
NoWorkspace == [exists |-> FALSE, creator |-> 0, srmodels |-> 0, index |-> 0, image |-> 0]
NewWorkspace(p) == [exists |-> TRUE, creator |-> p, srmodels |-> 0, index |-> 0, image |-> 0]
\* a workspace a crashed earlier build left behind
StaleWorkspace == [exists |-> TRUE, creator |-> 0, srmodels |-> 0, index |-> 0, image |-> 0]

\* the builds other than p among the given owners of files
Foreign(p, owners) == { o \in owners : o # 0 /\ o # p }
OwnersIn(w) == IF w.exists THEN { w.creator, w.srmodels, w.index, w.image } ELSE {}

TBInit ==
    /\ tb_dest \in { f \in [Builds -> DestPaths] : f[1] # f[2] }
    /\ tb_ws \in [DestDirs -> { NoWorkspace, StaleWorkspace }]
    /\ \A w \in DestDirs : tb_ws[w].exists => w = "out"
    /\ tb_out = [d \in DestPaths |-> 0]
    /\ tb_pc = [p \in Builds |-> "start"]
    /\ tb_ret = [p \in Builds |-> "none"]
    /\ tb_fresh = [p \in Builds |-> FALSE]
    /\ tb_interference = {}

\* no build is running
TBIdle ==
    /\ tb_dest = [p \in Builds |-> [dir |-> "out", file |-> "a.bin"]]
    /\ tb_ws = [w \in DestDirs |-> NoWorkspace]
    /\ tb_out = [d \in DestPaths |-> 0]
    /\ tb_pc = [p \in Builds |-> "idle"]
    /\ tb_ret = [p \in Builds |-> "none"]
    /\ tb_fresh = [p \in Builds |-> FALSE]
    /\ tb_interference = {}

\* lines 454-463: a temp_build that exists is removed, then made anew
TBStart(p) ==
    LET d == TempBuildDir(tb_dest[p]) IN
    /\ tb_pc[p] = "start"
    /\ tb_interference' = tb_interference \cup
          { << p, o, "removed" >> : o \in Foreign(p, OwnersIn(tb_ws[d])) }
    /\ tb_ws' = [tb_ws EXCEPT ![d] = NewWorkspace(p)]
    /\ tb_fresh' = [tb_fresh EXCEPT ![p] = TRUE]
    /\ tb_pc' = [tb_pc EXCEPT ![p] = "container"]
    /\ UNCHANGED << tb_dest, tb_out, tb_ret >>
    /\ UNCHANGED notTB

\* lines 480-484: process_sr_models makes temp_build/srmodels (and temp_build
\* with it when it is gone), packs, and copies srmodels.bin to assets; without
\* the assets directory the copy raises and the step fails
TBBuildModelContainer(p) ==
    LET d == TempBuildDir(tb_dest[p]) IN
    /\ tb_pc[p] = "container"
    /\ IF tb_ws[d].exists
       THEN /\ tb_ws' = [tb_ws EXCEPT ![d].srmodels = p]
            /\ tb_interference' = tb_interference \cup
                  { << p, o, "overwrote" >> : o \in Foreign(p, { tb_ws[d].creator, tb_ws[d].srmodels }) }
            /\ tb_pc' = [tb_pc EXCEPT ![p] = "manifest"]
            /\ UNCHANGED tb_ret
       ELSE /\ tb_ws' = [tb_ws EXCEPT ![d] = NewWorkspace(p)]
            /\ tb_pc' = [tb_pc EXCEPT ![p] = "teardown"]
            /\ tb_ret' = [tb_ret EXCEPT ![p] = "False"]
            /\ UNCHANGED tb_interference
    /\ UNCHANGED << tb_dest, tb_out, tb_fresh >>
    /\ UNCHANGED notTB

\* lines 531-532: index.json is written to assets; open raises without it
TBGenerateManifest(p) ==
    LET d == TempBuildDir(tb_dest[p]) IN
    /\ tb_pc[p] = "manifest"
    /\ IF tb_ws[d].exists
       THEN /\ tb_ws' = [tb_ws EXCEPT ![d].index = p]
            /\ tb_interference' = tb_interference \cup
                  { << p, o, "overwrote" >> : o \in Foreign(p, { tb_ws[d].creator, tb_ws[d].index }) }
            /\ tb_pc' = [tb_pc EXCEPT ![p] = "bundle"]
            /\ UNCHANGED tb_ret
       ELSE /\ tb_pc' = [tb_pc EXCEPT ![p] = "teardown"]
            /\ tb_ret' = [tb_ret EXCEPT ![p] = "False"]
            /\ UNCHANGED << tb_ws, tb_interference >>
    /\ UNCHANGED << tb_dest, tb_out, tb_fresh >>
    /\ UNCHANGED notTB

\* lines 534-538: pack_assets_simple makes temp_build/output, lists and reads
\* the files of assets (listdir raises without it) and writes assets.bin
TBBuildAssetBundle(p) ==
    LET d == TempBuildDir(tb_dest[p]) IN
    /\ tb_pc[p] = "bundle"
    /\ IF tb_ws[d].exists
       THEN /\ tb_ws' = [tb_ws EXCEPT ![d].image = p]
            /\ tb_interference' = tb_interference
                  \cup { << p, o, "read" >> : o \in Foreign(p, { tb_ws[d].srmodels, tb_ws[d].index }) }
                  \cup { << p, o, "overwrote" >> : o \in Foreign(p, { tb_ws[d].creator, tb_ws[d].image }) }
            /\ tb_pc' = [tb_pc EXCEPT ![p] = "finalize"]
            /\ UNCHANGED tb_ret
       ELSE /\ tb_ws' = [tb_ws EXCEPT ![d] = NewWorkspace(p)]
            /\ tb_pc' = [tb_pc EXCEPT ![p] = "teardown"]
            /\ tb_ret' = [tb_ret EXCEPT ![p] = "False"]
            /\ UNCHANGED tb_interference
    /\ UNCHANGED << tb_dest, tb_out, tb_fresh >>
    /\ UNCHANGED notTB

\* lines 540-552: the bundle found in the workspace is copied to output_path
TBFinalize(p) ==
    LET d == TempBuildDir(tb_dest[p]) IN
    /\ tb_pc[p] = "finalize"
    /\ IF tb_ws[d].exists /\ tb_ws[d].image # 0
       THEN /\ tb_out' = [tb_out EXCEPT ![tb_dest[p]] = tb_ws[d].image]
            /\ tb_interference' = tb_interference \cup
                  { << p, o, "read" >> : o \in Foreign(p, { tb_ws[d].image }) }
            /\ tb_ret' = [tb_ret EXCEPT ![p] = "True"]
       ELSE /\ tb_ret' = [tb_ret EXCEPT ![p] = "False"]
            /\ UNCHANGED << tb_out, tb_interference >>
    /\ tb_pc' = [tb_pc EXCEPT ![p] = "teardown"]
    /\ UNCHANGED << tb_dest, tb_ws, tb_fresh >>
    /\ UNCHANGED notTB

\* lines 559-562: temp_build is removed if it exists
TBTeardown(p) ==
    LET d == TempBuildDir(tb_dest[p]) IN
    /\ tb_pc[p] = "teardown"
    /\ tb_interference' = tb_interference \cup
          { << p, o, "removed" >> : o \in Foreign(p, OwnersIn(tb_ws[d])) }
    /\ tb_ws' = [tb_ws EXCEPT ![d] = NoWorkspace]
    /\ tb_pc' = [tb_pc EXCEPT ![p] = "returned"]
    /\ UNCHANGED << tb_dest, tb_out, tb_ret, tb_fresh >>
    /\ UNCHANGED notTB

TBNext ==
    \E p \in Builds :
        \/ TBStart(p)
        \/ TBBuildModelContainer(p)
        \/ TBGenerateManifest(p)
        \/ TBBuildAssetBundle(p)
        \/ TBFinalize(p)
        \/ TBTeardown(p)

\* C24: each build starts on a workspace without earlier contents, and no
\* build reads, overwrites or removes files of the other build's workspace.
C24_PrivateWorkspace ==
    /\ \A p \in Builds : tb_pc[p] # "start" => tb_fresh[p]
    /\ tb_interference = {}

\* ------------------------------------------------- the BLE provisioning tool
\* what the user can type at a prompt: "", " ", "h" and "pw"
TypedLines == { <<>>, << 32 >>, << 104 >>, << 112, 119 >> }
\* the statuses the device notifies in the model
NotifiedStatuses == { CONNECTING, CONNECTED, FAILED_WRONG_PWD }
\* lines 319-324: the statuses that set the event
TerminalStatuses == { CONNECTED, FAILED_TIMEOUT, FAILED_WRONG_PWD, FAILED_NOT_FOUND, FAILED_UNKNOWN }

\* the step after a GATT write of configure_wifi, an exception ignored
cw_next_ignoring(next, raised) == next

\* lines 209-237: an exception in a write leaves the try for `return False`
cw_next(next, raised) == IF raised THEN "cw_return" ELSE next

\* where configure_wifi's caller goes on: main() at line 339, or nowhere
AfterConfigure(caller, ret) ==
    IF caller = "main" THEN (IF ret = "True" THEN "wait" ELSE "finally") ELSE "cw_done"

\* the states in which the event loop runs and notification handlers are called
AwaitStates == { "cw_ssid", "cw_password", "cw_command", "wait", "finally", "disconnect" }

BLInitCommon ==
    /\ bl_ssid = <<>>
    /\ bl_password = <<>>
    /\ bl_notify = FALSE
    /\ bl_status_event = FALSE
    /\ bl_final_status = <<>>
    /\ bl_final_when = "none"
    /\ bl_writes = <<>>
    /\ bl_cw_ret = "none"
    /\ bl_cw_entry = "none"
    /\ bl_result = "none"
    /\ bl_calls = <<>>
    /\ bl_raised = FALSE

\* main() after a device was selected: line 295
BLMainInit ==
    /\ bl_caller = "main"
    /\ bl_pc = "connect"
    /\ bl_client = FALSE
    /\ bl_device = FALSE
    /\ bl_is_connected = FALSE
    /\ bl_connect_ok = FALSE
    /\ BLInitCommon

\* configure_wifi called on a configurator in any state: line 203
CWInit ==
    /\ bl_caller = "direct"
    /\ bl_pc = "cw_check"
    /\ bl_client \in BOOLEAN
    /\ bl_device = bl_client
    /\ bl_is_connected \in BOOLEAN
    /\ bl_is_connected => bl_client
    /\ bl_connect_ok = bl_client
    /\ bl_ssid \in TypedLines
    /\ bl_password \in TypedLines
    /\ bl_notify \in BOOLEAN
    /\ bl_notify => bl_is_connected
    /\ bl_status_event = FALSE
    /\ bl_final_status = <<>>
    /\ bl_final_when = "none"
    /\ bl_writes = <<>>
    /\ bl_cw_ret = "none"
    /\ bl_cw_entry = "none"
    /\ bl_result = "none"
    /\ bl_calls = <<>>
    /\ bl_raised = FALSE

\* the tool is not running
BLIdle ==
    /\ bl_caller = "idle"
    /\ bl_pc = "idle"
    /\ bl_client = FALSE
    /\ bl_device = FALSE
    /\ bl_is_connected = FALSE
    /\ bl_connect_ok = FALSE
    /\ BLInitCommon

blMain == << bl_status_event, bl_final_status, bl_final_when, bl_result, bl_calls, bl_raised >>
blConf == << bl_writes, bl_cw_ret, bl_cw_entry >>
blLink == << bl_client, bl_device, bl_is_connected, bl_connect_ok, bl_notify >>
blInput == << bl_caller, bl_ssid, bl_password >>

\* lines 107-119 from line 295: connect; on failure main returns
BLConnect ==
    /\ bl_pc = "connect"
    /\ \E ok \in BOOLEAN :
          /\ bl_client' = TRUE
          /\ bl_device' = ok
          /\ bl_is_connected' = ok
          /\ bl_connect_ok' = ok
          /\ bl_pc' = IF ok THEN "read_info" ELSE "done"
    /\ UNCHANGED << blInput, blMain, blConf, bl_notify >>
    /\ UNCHANGED notBL

\* lines 300-310: device info and status are read, failures are swallowed
BLReadInfoAndStatus ==
    /\ bl_pc = "read_info"
    /\ bl_pc' = "subscribe"
    /\ UNCHANGED << blInput, blMain, blConf, blLink >>
    /\ UNCHANGED notBL

\* lines 177-193 from line 326: the handler is registered unless the client
\* is gone, not connected, or start_notify raises; main ignores the result
BLSubscribe ==
    /\ bl_pc = "subscribe"
    /\ \E raised \in BOOLEAN :
          bl_notify' = (bl_client /\ bl_is_connected /\ ~raised)
    /\ bl_pc' = "input_ssid"
    /\ UNCHANGED << blInput, blMain, blConf, bl_client, bl_device, bl_is_connected, bl_connect_ok >>
    /\ UNCHANGED notBL

\* lines 330-333: the SSID is typed; an empty one ends main, input can raise
BLInputSsid ==
    /\ bl_pc = "input_ssid"
    /\ \E raised \in BOOLEAN, line \in TypedLines :
          IF raised
          THEN bl_raised' = TRUE /\ bl_pc' = "finally" /\ UNCHANGED bl_ssid
          ELSE /\ bl_ssid' = str_strip(line)
               /\ bl_pc' = IF str_strip(line) = <<>> THEN "finally" ELSE "input_password"
               /\ UNCHANGED bl_raised
    /\ UNCHANGED << bl_caller, bl_password, bl_status_event, bl_final_status, bl_final_when,
                    bl_result, bl_calls, blConf, blLink >>
    /\ UNCHANGED notBL

\* line 335: the password is typed
BLInputPassword ==
    /\ bl_pc = "input_password"
    /\ \E raised \in BOOLEAN, line \in TypedLines :
          IF raised
          THEN bl_raised' = TRUE /\ bl_pc' = "finally" /\ UNCHANGED bl_password
          ELSE bl_password' = str_strip(line) /\ bl_pc' = "cw_check" /\ UNCHANGED bl_raised
    /\ UNCHANGED << bl_caller, bl_ssid, bl_status_event, bl_final_status, bl_final_when,
                    bl_result, bl_calls, blConf, blLink >>
    /\ UNCHANGED notBL

\* lines 205-207: configure_wifi refuses without a connected client
CWCheck ==
    /\ bl_pc = "cw_check"
    /\ IF ~bl_client \/ ~bl_is_connected
       THEN /\ bl_cw_entry' = "refused"
            /\ bl_cw_ret' = "False"
            /\ bl_pc' = AfterConfigure(bl_caller, "False")
       ELSE /\ bl_cw_entry' = "ok"
            /\ bl_pc' = "cw_ssid"
            /\ UNCHANGED bl_cw_ret
    /\ UNCHANGED << blInput, blMain, blLink, bl_writes >>
    /\ UNCHANGED notBL

\* client.write_gatt_char: the write is recorded unless it raised
write_gatt_char(writes, char, value, raised) ==
    IF raised THEN writes ELSE Append(writes, [char |-> char, value |-> value])

\* lines 212-216: the SSID is written; a write raises when the link is gone,
\* and can raise anyway
CWWriteSsid ==
    /\ bl_pc = "cw_ssid"
    /\ \E fault \in BOOLEAN :
          LET raised == fault \/ ~bl_is_connected IN
          /\ bl_writes' = write_gatt_char(bl_writes, "WIFI_SSID", bl_ssid, raised)
          /\ bl_pc' = cw_next("cw_password", raised)
    /\ UNCHANGED << blInput, blMain, blLink, bl_cw_ret, bl_cw_entry >>
    /\ UNCHANGED notBL

\* lines 220-224: the password is written
CWWritePassword ==
    /\ bl_pc = "cw_password"
    /\ \E fault \in BOOLEAN :
          LET raised == fault \/ ~bl_is_connected IN
          /\ bl_writes' = write_gatt_char(bl_writes, "WIFI_PASSWORD", bl_password, raised)
          /\ bl_pc' = cw_next("cw_command", raised)
    /\ UNCHANGED << blInput, blMain, blLink, bl_cw_ret, bl_cw_entry >>
    /\ UNCHANGED notBL

\* lines 228-232: the CONNECT command is written
CWWriteCommand ==
    /\ bl_pc = "cw_command"
    /\ \E fault \in BOOLEAN :
          LET raised == fault \/ ~bl_is_connected IN
          /\ bl_writes' = write_gatt_char(bl_writes, "WIFI_COMMAND", << CONNECT_COMMAND >>, raised)
          /\ bl_pc' = cw_next("cw_wrote", raised)
    /\ UNCHANGED << blInput, blMain, blLink, bl_cw_ret, bl_cw_entry >>
    /\ UNCHANGED notBL

\* line 234 `return True` and lines 235-237 `return False`
CWReturn ==
    /\ bl_pc \in { "cw_wrote", "cw_return" }
    /\ bl_cw_ret' = IF bl_pc = "cw_wrote" THEN "True" ELSE "False"
    /\ bl_pc' = AfterConfigure(bl_caller, bl_cw_ret')
    /\ UNCHANGED << blInput, blMain, blLink, bl_writes, bl_cw_entry >>
    /\ UNCHANGED notBL

\* lines 182-185 and 316-324: a status notification reaches the handler
BLNotification ==
    /\ bl_caller = "main"
    /\ bl_pc \in AwaitStates
    /\ bl_notify /\ bl_is_connected
    /\ \E new_status \in NotifiedStatuses :
          /\ bl_final_status' = << new_status >>
          /\ bl_final_when' = IF \E k \in 1..Len(bl_writes) : bl_writes[k].char = "WIFI_COMMAND"
                              THEN "after_connect" ELSE "before_connect"
          /\ bl_status_event' = (bl_status_event \/ new_status \in TerminalStatuses)
    /\ UNCHANGED << blInput, blConf, blLink, bl_pc, bl_result, bl_calls, bl_raised >>
    /\ UNCHANGED notBL

\* the device goes out of reach
BLLinkLost ==
    /\ bl_pc \notin { "idle", "connect", "done", "cw_done" }
    /\ bl_is_connected
    /\ bl_is_connected' = FALSE
    /\ UNCHANGED << blInput, blMain, blConf, bl_pc, bl_client, bl_device, bl_connect_ok, bl_notify >>
    /\ UNCHANGED notBL

\* lines 344-349: the event is set, the result is read from final_status
BLWaitEvent ==
    /\ bl_pc = "wait"
    /\ bl_status_event
    /\ bl_result' = IF bl_final_status = << CONNECTED >> THEN "success" ELSE "failed"
    /\ bl_pc' = "finally"
    /\ UNCHANGED << blInput, blConf, blLink, bl_status_event, bl_final_status, bl_final_when,
                    bl_calls, bl_raised >>
    /\ UNCHANGED notBL

\* lines 350-351: 30 seconds pass without the event
BLWaitTimeout ==
    /\ bl_pc = "wait"
    /\ ~bl_status_event
    /\ bl_result' = "timeout"
    /\ bl_pc' = "finally"
    /\ UNCHANGED << blInput, blConf, blLink, bl_status_event, bl_final_status, bl_final_when,
                    bl_calls, bl_raised >>
    /\ UNCHANGED notBL

\* lines 195-201 from line 355: stop_notify, its exceptions swallowed
BLUnsubscribe ==
    /\ bl_pc = "finally"
    /\ bl_calls' = Append(bl_calls, "unsubscribe_status")
    /\ \E raised \in BOOLEAN :
          bl_notify' = IF bl_client /\ bl_is_connected /\ ~raised THEN FALSE ELSE bl_notify
    /\ bl_pc' = "disconnect"
    /\ UNCHANGED << blInput, blConf, bl_client, bl_device, bl_is_connected, bl_connect_ok,
                    bl_status_event, bl_final_status, bl_final_when, bl_result, bl_raised >>
    /\ UNCHANGED notBL

\* lines 121-127 from line 356: the client's disconnect can raise, and then
\* lines 126-127 are not reached
BLDisconnect ==
    /\ bl_pc = "disconnect"
    /\ bl_calls' = Append(bl_calls, "disconnect")
    /\ \E raised \in BOOLEAN :
          IF bl_client /\ bl_is_connected /\ raised
          THEN /\ bl_raised' = TRUE
               /\ UNCHANGED << bl_client, bl_device, bl_is_connected, bl_notify >>
          ELSE /\ bl_client' = FALSE
               /\ bl_device' = FALSE
               /\ bl_is_connected' = FALSE
               /\ bl_notify' = FALSE
               /\ UNCHANGED bl_raised
    /\ bl_pc' = "done"
    /\ UNCHANGED << blInput, blConf, bl_connect_ok, bl_status_event, bl_final_status,
                    bl_final_when, bl_result >>
    /\ UNCHANGED notBL

CWNext == CWCheck \/ CWWriteSsid \/ CWWritePassword \/ CWWriteCommand \/ CWReturn \/ BLLinkLost

BLNext ==
    \/ BLConnect
    \/ BLReadInfoAndStatus
    \/ BLSubscribe
    \/ BLInputSsid
    \/ BLInputPassword
    \/ CWCheck
    \/ CWWriteSsid
    \/ CWWritePassword
    \/ CWWriteCommand
    \/ CWReturn
    \/ BLNotification
    \/ BLLinkLost
    \/ BLWaitEvent
    \/ BLWaitTimeout
    \/ BLUnsubscribe
    \/ BLDisconnect

\* --------------------------------------- the BLE provisioning tool: claims
\* the GATT writes of configure_wifi, in order
WriteOrder == << "WIFI_SSID", "WIFI_PASSWORD", "WIFI_COMMAND" >>
WrittenChars == [k \in 1..Len(bl_writes) |-> bl_writes[k].char]

\* C26: configure_wifi writes SSID, password, CONNECT in this order, the
\* CONNECT command only after both credentials; it writes nothing without a
\* connected client; it returns True exactly when all three were written.
C26_WritesInOrder ==
    /\ Len(bl_writes) <= 3
    /\ WrittenChars = SubSeq(WriteOrder, 1, Len(bl_writes))
    /\ \A k \in 1..Len(bl_writes) :
          bl_writes[k].value = CASE k = 1 -> bl_ssid [] k = 2 -> bl_password
                                 [] OTHER -> << CONNECT_COMMAND >>
    /\ bl_cw_entry = "refused" => bl_writes = <<>>
    /\ bl_pc = "cw_done" =>
          /\ bl_cw_ret \in { "True", "False" }
          /\ (bl_cw_ret = "True") <=> (WrittenChars = WriteOrder)

\* the password write failed after the SSID was written: no CONNECT, False
C26_Witness ==
    /\ bl_pc = "cw_done"
    /\ bl_cw_entry = "ok"
    /\ WrittenChars = << "WIFI_SSID" >>
    /\ bl_cw_ret = "False"

\* C27: after connect() succeeded, main ends with unsubscribe_status and then
\* disconnect, each once, and the client and the device are then None.
C27_CleanupOnEveryExit ==
    (bl_caller = "main" /\ bl_pc = "done" /\ bl_connect_ok) =>
        /\ bl_calls = << "unsubscribe_status", "disconnect" >>
        /\ ~bl_client
        /\ ~bl_device

\* C28: success is reported only for a CONNECTED notification that came after
\* the CONNECT command was written, and the result that is reported never
\* comes from a notification that came before it.
C28_ResultOfOwnAttempt ==
    /\ bl_result = "success" =>
          (bl_final_status = << CONNECTED >> /\ bl_final_when = "after_connect")
    /\ bl_result \in { "success", "failed" } => bl_final_when = "after_connect"
    /\ (bl_pc = "wait" /\ bl_status_event) => bl_final_when = "after_connect"

\* ------------------------------------------------------------ the OTA server
\* strings of src/tools/ota_server/ota_server.py, as code points
Str__v == << 95, 118 >>   \* "_v"
Str_dot_bin == << 46, 98, 105, 110 >>   \* ".bin"
Str_dot_zip == << 46, 122, 105, 112 >>   \* ".zip"
Str_EmotiPet_bin == << 69, 109, 111, 116, 105, 80, 101, 116, 46, 98, 105, 110 >>   \* "EmotiPet.bin"
Str_emotipet_bin == << 101, 109, 111, 116, 105, 112, 101, 116, 46, 98, 105, 110 >>   \* "emotipet.bin"
Str_default_version == << 49, 46, 48, 46, 48 >>   \* "1.0.0"
Str_firmware_dir == << 102, 105, 114, 109, 119, 97, 114, 101, 47 >>   \* "firmware/"
Str_host_url == << 104, 116, 116, 112, 58, 47, 47, 104, 47 >>   \* "http://h/"
\* file names, archive members and versions of the model
File_a_190 == << 97, 95, 118, 49, 46, 57, 46, 48, 46, 98, 105, 110 >>   \* "a_v1.9.0.bin"
File_a_1100 == << 97, 95, 118, 49, 46, 49, 48, 46, 48, 46, 98, 105, 110 >>   \* "a_v1.10.0.bin"
File_a == << 97, 46, 98, 105, 110 >>   \* "a.bin"
File_m_200 == << 109, 95, 118, 50, 46, 48, 46, 48, 46, 98, 105, 110 >>   \* "m_v2.0.0.bin"
File_zip_200 == << 97, 95, 118, 50, 46, 48, 46, 48, 46, 122, 105, 112 >>   \* "a_v2.0.0.zip"
File_zip_c == << 99, 46, 122, 105, 112 >>   \* "c.zip"
File_zip_bad == << 101, 95, 118, 50, 46, 48, 46, 48, 46, 122, 105, 112 >>   \* "e_v2.0.0.zip"
Member_m == << 120, 47, 109, 46, 98, 105, 110 >>   \* "x/m.bin"
Member_EmotiPet == << 69, 109, 111, 116, 105, 80, 101, 116, 46, 98, 105, 110 >>   \* "EmotiPet.bin"
Member_readme == << 114, 46, 116, 120, 116 >>   \* "r.txt"
Version_100 == << 49, 46, 48, 46, 48 >>   \* "1.0.0"
Version_190 == << 49, 46, 57, 46, 48 >>   \* "1.9.0"
Version_1100 == << 49, 46, 49, 48, 46, 48 >>   \* "1.10.0"
Version_200 == << 50, 46, 48, 46, 48 >>   \* "2.0.0"

\* what can be put into the firmware directory: a name, whether the content
\* is a zip archive, and the archive's members in order
Uploadable == {
    [name |-> File_a_190, is_zipfile |-> FALSE, members |-> <<>>],
    [name |-> File_a_1100, is_zipfile |-> FALSE, members |-> <<>>],
    [name |-> File_a, is_zipfile |-> FALSE, members |-> <<>>],
    [name |-> File_m_200, is_zipfile |-> FALSE, members |-> <<>>],
    [name |-> File_zip_200, is_zipfile |-> TRUE, members |-> << Member_readme, Member_m >>],
    [name |-> File_zip_c, is_zipfile |-> TRUE, members |-> << Member_m, Member_EmotiPet >>],
    [name |-> File_zip_bad, is_zipfile |-> FALSE, members |-> <<>>] }
\* the current_version values a device sends
RequestVersions == { Version_100, Version_190, Version_1100, Version_200 }
\* a request body: with or without the current_version key
Requests_ota ==
    { [has_version |-> TRUE, current_version |-> v] : v \in RequestVersions }
        \cup { [has_version |-> FALSE, current_version |-> <<>>] }
\* no reply yet
NoReply == [respond |-> 0 - 1, has_url |-> FALSE, download_url |-> <<>>, file_type |-> "none"]

\* str.endswith
endswith(s, suffix) ==
    Len(suffix) <= Len(s) /\ SubSeq(s, Len(s) - Len(suffix) + 1, Len(s)) = suffix
\* str.find, from 1; 0 when absent
str_find(p, s) ==
    IF str_in(p, s)
    THEN CHOOSE k \in 1..(Len(s) - Len(p) + 1) :
            /\ SubSeq(s, k, k + Len(p) - 1) = p
            /\ \A h \in 1..(k - 1) : SubSeq(s, h, h + Len(p) - 1) # p
    ELSE 0
\* s.split(sep)[0]
split_first(s, sep) == IF str_in(sep, s) THEN SubSeq(s, 1, str_find(sep, s) - 1) ELSE s
\* s.split(sep)[1], for s with sep in it
split_second(s, sep) ==
    split_first(SubSeq(s, str_find(sep, s) + Len(sep), Len(s)), sep)
\* the comparison of two str by > : by code points, a proper prefix is smaller
str_gt(a, b) ==
    \E k \in 1..Len(a) :
        /\ \A h \in 1..(k - 1) : h <= Len(b) /\ a[h] = b[h]
        /\ (k > Len(b) \/ (a[k] > b[k]))

\* lines 121-143: the version in a file name, "1.0.0" without one
version_of(filename) ==
    IF str_in(Str__v, filename)
    THEN IF endswith(filename, Str_dot_zip)
         THEN split_first(split_second(filename, Str__v), Str_dot_zip)
         ELSE split_first(split_second(filename, Str__v), Str_dot_bin)
    ELSE Str_default_version

\* lines 146-162: the name of the newest file, <<>> for an empty store
get_latest_firmware(store) ==
    IF store = {} THEN <<>>
    ELSE (CHOOSE f \in store : \A g \in store : g.mtime <= f.mtime).name

StoredFile(store, name) == CHOOSE f \in store : f.name = name

\* strftime('%Y%m%d_%H%M%S') of the clock, one digit in the model
Timestamp(clock) == << 48 + clock >>

\* lines 62-72: the member to extract: the first one with EmotiPet.bin in its
\* name, else the first .bin; <<>> without one
bin_member(members) ==
    LET bins == SelectSeq(members, LAMBDA f : endswith(f, Str_dot_bin))
        pref == SelectSeq(bins, LAMBDA f : str_in(Str_EmotiPet_bin, f)
                                              \/ str_in(Str_emotipet_bin, str_lower(f)))
    IN  IF pref # <<>> THEN pref[1] ELSE IF bins # <<>> THEN bins[1] ELSE <<>>

\* lines 76-96: the name the extracted member gets in the firmware directory
extracted_name(store, zip_name, member, clock) ==
    LET zip_basename == splitext(zip_name)[1]
        plain == basename(member)
        filename == IF str_in(Str__v, zip_basename)
                    THEN splitext(plain)[1] \o Str__v \o split_second(zip_basename, Str__v)
                            \o splitext(plain)[2]
                    ELSE plain
    IN  IF \E f \in store : f.name = filename
        THEN splitext(filename)[1] \o << 95 >> \o Timestamp(clock) \o splitext(filename)[2]
        ELSE filename

\* lines 53-107: the store after extract_bin_from_zip and the name returned,
\* <<>> for None; the write at lines 98-99 can raise
extract_bin_from_zip(store, zip_name, clock, raised) ==
    LET zip == StoredFile(store, zip_name)
        member == bin_member(zip.members)
        target == extracted_name(store, zip_name, member, clock)
    IN  IF ~zip.is_zipfile \/ member = <<>> \/ raised
        THEN [store |-> store, extracted |-> <<>>]
        ELSE [store |-> { f \in store : f.name # target }
                          \cup { [name |-> target, is_zipfile |-> FALSE, members |-> <<>>,
                                  mtime |-> clock] },
              extracted |-> target]

\* line 345: latest_version > current_version, both str
newer(latest_version, current_version) == str_gt(latest_version, current_version)

\* lines 308-380: the reply and the store after POST /api/ota/check
ota_check_update(store, request, clock, raised) ==
    LET current_version == IF request.has_version THEN request.current_version
                           ELSE Str_default_version
        latest_file == get_latest_firmware(store)
        latest_version == version_of(latest_file)
        ex == IF endswith(latest_file, Str_dot_zip)
              THEN extract_bin_from_zip(store, latest_file, clock, raised)
              ELSE [store |-> store, extracted |-> <<>>]
        download_filename == IF ex.extracted # <<>> THEN ex.extracted ELSE latest_file
    IN  IF store = {} \/ ~newer(latest_version, current_version)
        THEN [store |-> store,
              reply |-> [respond |-> 0, has_url |-> FALSE, download_url |-> <<>>,
                         file_type |-> "none"]]
        ELSE [store |-> ex.store,
              reply |-> [respond |-> 1, has_url |-> TRUE,
                         download_url |-> SubSeq(Str_host_url, 1, Len(Str_host_url) - 1)
                                             \o Str_firmware_dir \o download_filename,
                         file_type |-> IF endswith(latest_file, Str_dot_zip)
                                          /\ ex.extracted = <<>> THEN "zip" ELSE "bin"]]

\* the firmware directory holds up to MaxStored files, put there one after
\* the other; no request was made yet
OTInit ==
    /\ \E files \in SUBSET Uploadable :
          /\ Cardinality(files) <= MaxStored
          /\ \E order \in [files -> 1..Cardinality(files)] :
                /\ \A f, g \in files : f # g => order[f] # order[g]
                /\ ot_store = { [name |-> f.name, is_zipfile |-> f.is_zipfile,
                                 members |-> f.members, mtime |-> order[f]] : f \in files }
    /\ ot_uploads = ot_store
    /\ ot_clock = MaxStored + 1
    /\ ot_request = [has_version |-> FALSE, current_version |-> <<>>]
    /\ ot_store_at_request = {}
    /\ ot_reply = NoReply
    /\ ot_previous = NoReply
    /\ ot_checks = 0

\* the server is not running
OTIdle ==
    /\ ot_store = {}
    /\ ot_uploads = {}
    /\ ot_clock = MaxStored + 1
    /\ ot_request = [has_version |-> FALSE, current_version |-> <<>>]
    /\ ot_store_at_request = {}
    /\ ot_reply = NoReply
    /\ ot_previous = NoReply
    /\ ot_checks = 0

\* lines 306-380: a device posts to /api/ota/check; the first request is any
\* one, the later ones repeat it
OTCheckUpdate ==
    /\ ot_checks < MaxChecks
    /\ \E request \in Requests_ota, raised \in BOOLEAN :
          /\ ot_checks > 0 => request = ot_request
          /\ LET r == ota_check_update(ot_store, request, ot_clock, raised) IN
             /\ ot_store' = r.store
             /\ ot_reply' = r.reply
          /\ ot_request' = request
    /\ ot_store_at_request' = ot_store
    /\ ot_previous' = ot_reply
    /\ ot_clock' = ot_clock + 1
    /\ ot_checks' = ot_checks + 1
    /\ UNCHANGED ot_uploads
    /\ UNCHANGED notOT

OTNext == OTCheckUpdate

\* ------------------------------------------------------ the OTA server: claims
RECURSIVE Number(_)
\* the number written by a string of digits
Number(digits) ==
    IF digits = <<>> THEN 0
    ELSE 10 * Number(SubSeq(digits, 1, Len(digits) - 1)) + (digits[Len(digits)] - 48)
RECURSIVE Components(_)
\* the numeric components of a dotted version
Components(version) ==
    IF \E k \in 1..Len(version) : version[k] = 46
    THEN LET dot == CHOOSE k \in 1..Len(version) :
                       version[k] = 46 /\ \A h \in 1..(k - 1) : version[h] # 46
         IN  << Number(SubSeq(version, 1, dot - 1)) >>
                \o Components(SubSeq(version, dot + 1, Len(version)))
    ELSE << Number(version) >>
\* a is strictly newer than b, component by component
NumericallyNewer(a, b) ==
    \E k \in 1..Len(a) :
        /\ \A h \in 1..(k - 1) : h <= Len(b) /\ a[h] = b[h]
        /\ (k > Len(b) \/ a[k] > b[k])
\* the version the device reported, "1.0.0" when it reported none
ReportedVersion ==
    IF ot_request.has_version THEN ot_request.current_version ELSE Str_default_version

\* C29: a check creates, modifies and deletes no file of the firmware
\* directory, and a repeated check gets the same respond and download_url.
C29_CheckIsPureQuery ==
    /\ ot_store = ot_uploads
    /\ ot_checks >= 2 =>
          /\ ot_reply.respond = ot_previous.respond
          /\ ot_reply.download_url = ot_previous.download_url

\* C30: the reply to a check of the uploaded files is respond = 1 with a
\* download_url exactly when there is a firmware file whose version is newer
\* than the reported one by numeric components, else respond = 0 without one.
C30_NewerByComponents ==
    (ot_checks >= 1 /\ ot_store_at_request = ot_uploads) =>
        IF /\ ot_store_at_request # {}
           /\ NumericallyNewer(Components(version_of(get_latest_firmware(ot_store_at_request))),
                               Components(ReportedVersion))
        THEN ot_reply.respond = 1 /\ ot_reply.has_url
        ELSE ot_reply.respond = 0 /\ ~ot_reply.has_url

\* ------------------------------------------------------- specifications
\* pack_models on every bounded model tree
InitPackModels == PMInit /\ PAIdle /\ NCIdle /\ CSIdle /\ BAIdle /\ TBIdle /\ BLIdle /\ OTIdle
NextPackModels == PMNext
SpecPackModels == InitPackModels /\ [][NextPackModels]_vars

\* pack_assets_simple on every bounded directory, run twice
InitPackAssets == PAInit /\ PMIdle /\ NCIdle /\ CSIdle /\ BAIdle /\ TBIdle /\ BLIdle /\ OTIdle
NextPackAssets == PANext
SpecPackAssets == InitPackAssets /\ [][NextPackAssets]_vars
\* the two name encoders on every bounded name
InitNameCodec == NCInit /\ PMIdle /\ PAIdle /\ CSIdle /\ BAIdle /\ TBIdle /\ BLIdle /\ OTIdle
NextNameCodec == NCNext
SpecNameCodec == InitNameCodec /\ [][NextNameCodec]_vars
\* compute_checksum on two bounded byte strings and their concatenation
InitChecksum == CSInit /\ PMIdle /\ PAIdle /\ NCIdle /\ BAIdle /\ TBIdle /\ BLIdle /\ OTIdle
NextChecksum == CSNext
SpecChecksum == InitChecksum /\ [][NextChecksum]_vars
\* one call of build_assets
InitBuildAssets == BAInit /\ PMIdle /\ PAIdle /\ NCIdle /\ CSIdle /\ TBIdle /\ BLIdle /\ OTIdle
NextBuildAssets == BANext
SpecBuildAssets == InitBuildAssets /\ [][NextBuildAssets]_vars
\* two calls of build_assets with distinct destinations, overlapping in time
InitTwoBuilds == TBInit /\ PMIdle /\ PAIdle /\ NCIdle /\ CSIdle /\ BAIdle /\ BLIdle /\ OTIdle
NextTwoBuilds == TBNext
SpecTwoBuilds == InitTwoBuilds /\ [][NextTwoBuilds]_vars
\* configure_wifi called on a configurator in any state
InitConfigureWifi == CWInit /\ PMIdle /\ PAIdle /\ NCIdle /\ CSIdle /\ BAIdle /\ TBIdle /\ OTIdle
NextConfigureWifi == CWNext
SpecConfigureWifi == InitConfigureWifi /\ [][NextConfigureWifi]_vars
\* main() of the provisioning tool from the connect attempt on
InitBleMain == BLMainInit /\ PMIdle /\ PAIdle /\ NCIdle /\ CSIdle /\ BAIdle /\ TBIdle /\ OTIdle
NextBleMain == BLNext
SpecBleMain == InitBleMain /\ [][NextBleMain]_vars
\* the OTA server answering update checks
InitOtaCheck == OTInit /\ PMIdle /\ PAIdle /\ NCIdle /\ CSIdle /\ BAIdle /\ TBIdle /\ BLIdle
NextOtaCheck == OTNext
SpecOtaCheck == InitOtaCheck /\ [][NextOtaCheck]_vars
====
